---- MODULE Spec2Model ----
(***************************************************************************)
(* Model of validation.py (idIAmas): the translation-response normalizer   *)
(* parse_and_validate_translation and its helpers.                         *)
(*                                                                         *)
(* Text is modelled at character level: a Python str is a sequence of      *)
(* one-character strings.  A Python / JSON value is a tagged record        *)
(*   [t, s, n, items]                                                      *)
(* with t in {"str","num","bool","null","list","dict"}; a dict keeps its   *)
(* entries in insertion order as records [k |-> key text, v |-> value].    *)
(* json.loads, json.dumps, str.strip, str.find/rfind and the regular       *)
(* expressions of the source are computed on these character sequences.    *)
(***************************************************************************)
EXTENDS Integers, Sequences, FiniteSets, TLC

(* one call of parse_and_validate_translation: its position, its argument,
   its locals, the record it returns, and the stages it has run so far *)
VARIABLES pc, payload, inp, original, translation, grammar_items, result, stages

(* several calls of parse_and_validate_translation in flight: calls[c] is
   the position, argument and returned record of call c, frames[f] the
   locals of frame f *)
VARIABLES calls, frames

(* launch_popup_subprocess and its surroundings: the environment variables,
   sys.platform, the position in the function, its argument, the temporary
   files on disk, the processes spawned, the value returned *)
VARIABLES environ, platform, lpc, sections, files, procs, ret

(* the popups of modern_popup_pyqt6.py: the reading of time.time(), the two
   module globals, the processes spawned so far, the position in the request
   under way, the request, the value it returned, and the requests made and
   accepted so far *)
VARIABLES clock, _last_popup_time, _active_popup_processes, processes, ppc,
          request, popup_ret, requests, accepted

(* the translator of main.py: whether a client is configured, DEBUG of the
   environment, the cache, the history, the API calls made so far; one call of
   translate_text_with_explanation: its position, its argument, the value
   returned, what the API gave, what the call found when it started; one
   call of execute_translation: its position, the image captured, the
   validated record, the value returned, the steps run so far *)
VARIABLES client, debug, word_cache, translation_history, api_calls,
          tpc, texto, translated, response, snapshot,
          epc, imagen, validated, executed, steps

validationVars ==
  <<pc, payload, inp, original, translation, grammar_items, result, stages>>

callsVars == <<calls, frames>>

launcherVars == <<environ, platform, lpc, sections, files, procs, ret>>

popupVars ==
  <<clock, _last_popup_time, _active_popup_processes, processes, ppc,
    request, popup_ret, requests, accepted>>

translatorVars ==
  <<client, debug, word_cache, translation_history, api_calls,
    tpc, texto, translated, response, snapshot>>

executeVars == <<epc, imagen, validated, executed, steps>>

(* what a call of parse_and_validate_translation leaves alone, and the same
   for the interleaved calls, the launcher, the popups and the translator *)
outsideValidation ==
  <<callsVars, launcherVars, popupVars, translatorVars, executeVars>>
outsideCalls ==
  <<validationVars, launcherVars, popupVars, translatorVars, executeVars>>
outsideLauncher ==
  <<validationVars, callsVars, popupVars, translatorVars, executeVars>>
outsidePopup ==
  <<validationVars, callsVars, launcherVars, translatorVars, executeVars>>
outsideTranslator == <<validationVars, callsVars, popupVars>>

vars ==
  <<validationVars, callsVars, launcherVars, popupVars, translatorVars,
    executeVars>>

----------------------------------------------------------------------------
(* Literal texts of the source *)

K_original == <<"o", "r", "i", "g", "i", "n", "a", "l">>
K_translation == <<"t", "r", "a", "n", "s", "l", "a", "t", "i", "o", "n">>
K_grammar == <<"g", "r", "a", "m", "m", "a", "r">>
K_word == <<"w", "o", "r", "d">>
K_explanation == <<"e", "x", "p", "l", "a", "n", "a", "t", "i", "o", "n">>
K_function == <<"f", "u", "n", "c", "t", "i", "o", "n">>
K_additional_info == <<"a", "d", "d", "i", "t", "i", "o", "n", "a", "l", "_", "i", "n", "f", "o">>
K_examples == <<"e", "x", "a", "m", "p", "l", "e", "s">>
K_difficulty == <<"d", "i", "f", "f", "i", "c", "u", "l", "t", "y">>
T_null == <<"n", "u", "l", "l">>
T_true == <<"t", "r", "u", "e">>
T_false == <<"f", "a", "l", "s", "e">>
T_None == <<"N", "o", "n", "e">>
T_True == <<"T", "r", "u", "e">>
T_False == <<"F", "a", "l", "s", "e">>
T_json == <<"j", "s", "o", "n">>
(* TLA+ string literals cannot hold the backtick character: the one-
   character string "BACKTICK" stands for it *)
Backtick == "BACKTICK"
T_fence == <<Backtick, Backtick, Backtick>>

(* the six fields of a grammar item, in the order the source writes them *)
ItemFields == <<K_word, K_explanation, K_function, K_additional_info,
                K_examples, K_difficulty>>

----------------------------------------------------------------------------
(* Character classes and str methods *)

(* the backspace character, which json writes as backslash b *)
Backspace == "BACKSPACE"

(* str.strip() and the regex class \s, over the alphabet of the model *)
WS == {" ", "\n", "\t", "\r", "\f"}

(* the whitespace json.loads skips between tokens *)
JsonWS == {" ", "\n", "\t", "\r"}

(* the control characters json.loads refuses inside a string *)
Control == {"\n", "\t", "\r", "\f", Backspace}

DigitChars == <<"0", "1", "2", "3", "4", "5", "6", "7", "8", "9">>

IsDigit(c) == \E d \in 1..10 : DigitChars[d] = c

DigitVal(c) == (CHOOSE d \in 1..10 : DigitChars[d] = c) - 1

RECURSIVE LStripSet(_, _)
LStripSet(s, cs) ==
  IF s # <<>> /\ Head(s) \in cs THEN LStripSet(Tail(s), cs) ELSE s

RECURSIVE RStripSet(_, _)
RStripSet(s, cs) ==
  IF s # <<>> /\ s[Len(s)] \in cs THEN RStripSet(SubSeq(s, 1, Len(s) - 1), cs)
  ELSE s

(* str.strip(chars) *)
StripSet(s, cs) == RStripSet(LStripSet(s, cs), cs)

(* Strip with a fault seeded: only the leading whitespace is removed *)
StripLeadingOnly(s) == LStripSet(s, WS)

(* str.strip() *)
Strip(s) == StripSet(s, WS)

(* s.startswith(p, i): p occurs in s at index i (1-based) *)
MatchAt(s, i, p) ==
  /\ i >= 1
  /\ i + Len(p) - 1 <= Len(s)
  /\ \A k \in 1..Len(p) : s[i + k - 1] = p[k]

StartsWith(s, p) == MatchAt(s, 1, p)

(* str.find(c) / str.rfind(c) for one character; 0 stands for -1 of Python,
   otherwise the 1-based index *)
Find(s, c) ==
  IF \E i \in 1..Len(s) : s[i] = c
  THEN CHOOSE i \in 1..Len(s) : s[i] = c /\ \A j \in 1..(i - 1) : s[j] # c
  ELSE 0

RFind(s, c) ==
  IF \E i \in 1..Len(s) : s[i] = c
  THEN CHOOSE i \in 1..Len(s) : s[i] = c /\ \A j \in (i + 1)..Len(s) : s[j] # c
  ELSE 0

Min(S) == CHOOSE x \in S : \A y \in S : x <= y

(* first index >= i holding character c, or 0 *)
IndexFrom(s, i, c) ==
  LET hits == {j \in i..Len(s) : s[j] = c}
  IN  IF hits = {} THEN 0 ELSE Min(hits)

(* index of the first character at or after i that is not whitespace
   (Len(s) + 1 when there is none): SkipWs is the regex \s*, JsonSkipWs the
   whitespace json.loads skips *)
RECURSIVE SkipSet(_, _, _)
SkipSet(s, i, cs) ==
  IF i <= Len(s) /\ s[i] \in cs THEN SkipSet(s, i + 1, cs) ELSE i

SkipWs(s, i) == SkipSet(s, i, WS)

JsonSkipWs(s, i) == SkipSet(s, i, JsonWS)

RECURSIVE Join(_, _)
Join(lines, sep) ==
  IF lines = <<>> THEN <<>>
  ELSE IF Len(lines) = 1 THEN lines[1]
  ELSE lines[1] \o sep \o Join(Tail(lines), sep)

----------------------------------------------------------------------------
(* Python / JSON values *)

JStr(s) == [t |-> "str", s |-> s, n |-> 0, items |-> <<>>]
JNum(n) == [t |-> "num", s |-> <<>>, n |-> n, items |-> <<>>]
JBool(b) == [t |-> "bool", s |-> <<>>, n |-> IF b THEN 1 ELSE 0, items |-> <<>>]
JNull == [t |-> "null", s |-> <<>>, n |-> 0, items |-> <<>>]
JList(xs) == [t |-> "list", s |-> <<>>, n |-> 0, items |-> xs]
JDict(kvs) == [t |-> "dict", s |-> <<>>, n |-> 0, items |-> kvs]

IsStr(v) == v.t = "str"
IsList(v) == v.t = "list"
IsDict(v) == v.t = "dict"

HasKey(d, k) == \E i \in 1..Len(d.items) : d.items[i].k = k

(* dict.get(k, default) *)
DictGet(d, k, default) ==
  IF HasKey(d, k)
  THEN d.items[CHOOSE i \in 1..Len(d.items) : d.items[i].k = k].v
  ELSE default

(* d[k] = v: a repeated key keeps its place and takes the later value *)
DictSet(kvs, k, v) ==
  IF \E i \in 1..Len(kvs) : kvs[i].k = k
  THEN [i \in 1..Len(kvs) |-> IF kvs[i].k = k THEN [k |-> k, v |-> v] ELSE kvs[i]]
  ELSE Append(kvs, [k |-> k, v |-> v])

----------------------------------------------------------------------------
(* json.loads: a recursive-descent reading of the text, as the json module
   of the standard library does it.  A parse step returns
   [ok, v, i]: whether it succeeded, the value, the index after it.
   Covered: objects, arrays, strings with the escapes \" \\ \/ \n \t \r \f \b,
   integers, true, false, null, whitespace between tokens; a raw control
   character inside a string, a trailing comma, a missing bracket and
   trailing text are errors (JSONDecodeError). *)

ParseFail == [ok |-> FALSE, v |-> JNull, i |-> 0]
ParseOk(v, i) == [ok |-> TRUE, v |-> v, i |-> i]

(* body of a string, from index i (after the opening quote), decoded *)
RECURSIVE ScanString(_, _, _)
ScanString(s, i, acc) ==
  IF i > Len(s) THEN ParseFail
  ELSE IF s[i] = "\"" THEN ParseOk(JStr(acc), i + 1)
  ELSE IF s[i] = "\\" THEN
    IF i + 1 > Len(s) THEN ParseFail
    ELSE IF s[i + 1] \in {"\"", "\\", "/"}
      THEN ScanString(s, i + 2, Append(acc, s[i + 1]))
    ELSE IF s[i + 1] = "n" THEN ScanString(s, i + 2, Append(acc, "\n"))
    ELSE IF s[i + 1] = "t" THEN ScanString(s, i + 2, Append(acc, "\t"))
    ELSE IF s[i + 1] = "r" THEN ScanString(s, i + 2, Append(acc, "\r"))
    ELSE IF s[i + 1] = "f" THEN ScanString(s, i + 2, Append(acc, "\f"))
    ELSE IF s[i + 1] = "b" THEN ScanString(s, i + 2, Append(acc, Backspace))
    ELSE ParseFail
  ELSE IF s[i] \in Control THEN ParseFail
  ELSE ScanString(s, i + 1, Append(acc, s[i]))

(* digits from index i: [n, i] the number read and the index after it *)
RECURSIVE ScanDigits(_, _, _)
ScanDigits(s, i, acc) ==
  IF i <= Len(s) /\ IsDigit(s[i])
  THEN ScanDigits(s, i + 1, acc * 10 + DigitVal(s[i]))
  ELSE [n |-> acc, i |-> i]

(* an integer: optional minus sign, then 0 or a digit sequence not starting with 0 *)
ParseNumber(s, i) ==
  LET neg == s[i] = "-"
      j == IF neg THEN i + 1 ELSE i
  IN  IF j > Len(s) \/ ~IsDigit(s[j]) THEN ParseFail
      ELSE IF s[j] = "0" THEN ParseOk(JNum(0), j + 1)
      ELSE LET d == ScanDigits(s, j, 0)
           IN  ParseOk(JNum(IF neg THEN 0 - d.n ELSE d.n), d.i)

RECURSIVE ParseValue(_, _)
RECURSIVE ParseArrayRest(_, _, _)
RECURSIVE ParseObjectRest(_, _, _)

(* inside an array, at the start of an element at index i *)
ParseArrayRest(s, i, acc) ==
  LET e == ParseValue(s, i)
  IN  IF ~e.ok THEN ParseFail
      ELSE LET j == JsonSkipWs(s, e.i)
               got == Append(acc, e.v)
           IN  IF j > Len(s) THEN ParseFail
               ELSE IF s[j] = "]" THEN ParseOk(JList(got), j + 1)
               ELSE IF s[j] = "," THEN ParseArrayRest(s, JsonSkipWs(s, j + 1), got)
               ELSE ParseFail

(* inside an object, at the start of a key at index i *)
ParseObjectRest(s, i, acc) ==
  IF i > Len(s) \/ s[i] # "\"" THEN ParseFail
  ELSE LET k == ScanString(s, i + 1, <<>>)
       IN  IF ~k.ok THEN ParseFail
           ELSE LET c == JsonSkipWs(s, k.i)
                IN  IF c > Len(s) \/ s[c] # ":" THEN ParseFail
                    ELSE LET e == ParseValue(s, JsonSkipWs(s, c + 1))
                         IN  IF ~e.ok THEN ParseFail
                             ELSE LET j == JsonSkipWs(s, e.i)
                                      got == DictSet(acc, k.v.s, e.v)
                                  IN  IF j > Len(s) THEN ParseFail
                                      ELSE IF s[j] = "}" THEN ParseOk(JDict(got), j + 1)
                                      ELSE IF s[j] = ","
                                        THEN ParseObjectRest(s, JsonSkipWs(s, j + 1), got)
                                      ELSE ParseFail

ParseValue(s, i) ==
  IF i > Len(s) THEN ParseFail
  ELSE IF s[i] = "\"" THEN ScanString(s, i + 1, <<>>)
  ELSE IF s[i] = "{" THEN
    LET j == JsonSkipWs(s, i + 1)
    IN  IF j <= Len(s) /\ s[j] = "}" THEN ParseOk(JDict(<<>>), j + 1)
        ELSE ParseObjectRest(s, j, <<>>)
  ELSE IF s[i] = "[" THEN
    LET j == JsonSkipWs(s, i + 1)
    IN  IF j <= Len(s) /\ s[j] = "]" THEN ParseOk(JList(<<>>), j + 1)
        ELSE ParseArrayRest(s, j, <<>>)
  ELSE IF MatchAt(s, i, T_null) THEN ParseOk(JNull, i + Len(T_null))
  ELSE IF MatchAt(s, i, T_true) THEN ParseOk(JBool(TRUE), i + Len(T_true))
  ELSE IF MatchAt(s, i, T_false) THEN ParseOk(JBool(FALSE), i + Len(T_false))
  ELSE IF s[i] = "-" \/ IsDigit(s[i]) THEN ParseNumber(s, i)
  ELSE ParseFail

(* json.loads(s): [ok, v]; ok = FALSE stands for the JSONDecodeError *)
JsonLoads(s) ==
  LET r == ParseValue(s, JsonSkipWs(s, 1))
  IN  IF r.ok /\ JsonSkipWs(s, r.i) = Len(s) + 1
      THEN [ok |-> TRUE, v |-> r.v]
      ELSE [ok |-> FALSE, v |-> JNull]

----------------------------------------------------------------------------
(* json.dumps and str(): values back to text *)

RECURSIVE DigitsOf(_)
DigitsOf(n) ==
  IF n < 10 THEN <<DigitChars[n + 1]>>
  ELSE Append(DigitsOf(n \div 10), DigitChars[(n % 10) + 1])

IntText(n) == IF n < 0 THEN <<"-">> \o DigitsOf(0 - n) ELSE DigitsOf(n)

(* the escapes json.dumps writes inside a string *)
RECURSIVE JsonEscape(_)
JsonEscape(s) ==
  IF s = <<>> THEN <<>>
  ELSE (IF Head(s) = "\"" THEN <<"\\", "\"">>
        ELSE IF Head(s) = "\\" THEN <<"\\", "\\">>
        ELSE IF Head(s) = "\n" THEN <<"\\", "n">>
        ELSE IF Head(s) = "\t" THEN <<"\\", "t">>
        ELSE IF Head(s) = "\r" THEN <<"\\", "r">>
        ELSE IF Head(s) = "\f" THEN <<"\\", "f">>
        ELSE IF Head(s) = Backspace THEN <<"\\", "b">>
        ELSE <<Head(s)>>) \o JsonEscape(Tail(s))

Quoted(s) == <<"\"">> \o JsonEscape(s) \o <<"\"">>

(* json.dumps(v) with the default separators ", " and ": " *)
RECURSIVE JsonDumps(_)
JsonDumps(v) ==
  IF v.t = "str" THEN Quoted(v.s)
  ELSE IF v.t = "num" THEN IntText(v.n)
  ELSE IF v.t = "bool" THEN (IF v.n = 1 THEN T_true ELSE T_false)
  ELSE IF v.t = "null" THEN T_null
  ELSE IF v.t = "list" THEN
    <<"[">> \o Join([i \in 1..Len(v.items) |-> JsonDumps(v.items[i])], <<",", " ">>)
            \o <<"]">>
  ELSE
    <<"{">> \o Join([i \in 1..Len(v.items) |->
                      Quoted(v.items[i].k) \o <<":", " ">> \o JsonDumps(v.items[i].v)],
                    <<",", " ">>)
            \o <<"}">>

(* repr() of a str: single quotes, backslash and control characters escaped
   (the alphabet of the model has no single quote) *)
RECURSIVE ReprEscape(_)
ReprEscape(s) ==
  IF s = <<>> THEN <<>>
  ELSE (IF Head(s) = "\\" THEN <<"\\", "\\">>
        ELSE IF Head(s) = "\n" THEN <<"\\", "n">>
        ELSE IF Head(s) = "\t" THEN <<"\\", "t">>
        ELSE IF Head(s) = "\r" THEN <<"\\", "r">>
        ELSE IF Head(s) = "\f" THEN <<"\\", "x", "0", "c">>
        ELSE IF Head(s) = Backspace THEN <<"\\", "x", "0", "8">>
        ELSE <<Head(s)>>) \o ReprEscape(Tail(s))

(* repr(v), which str() of a list or dict applies to its elements *)
RECURSIVE PyRepr(_)
PyRepr(v) ==
  IF v.t = "str" THEN <<"'">> \o ReprEscape(v.s) \o <<"'">>
  ELSE IF v.t = "num" THEN IntText(v.n)
  ELSE IF v.t = "bool" THEN (IF v.n = 1 THEN T_True ELSE T_False)
  ELSE IF v.t = "null" THEN T_None
  ELSE IF v.t = "list" THEN
    <<"[">> \o Join([i \in 1..Len(v.items) |-> PyRepr(v.items[i])], <<",", " ">>)
            \o <<"]">>
  ELSE
    <<"{">> \o Join([i \in 1..Len(v.items) |->
                      PyRepr(JStr(v.items[i].k)) \o <<":", " ">> \o PyRepr(v.items[i].v)],
                    <<",", " ">>)
            \o <<"}">>

(* str(v) *)
PyStr(v) == IF v.t = "str" THEN v.s ELSE PyRepr(v)

----------------------------------------------------------------------------
(* validation.py *)

(* _as_string with a fault seeded: None goes through str(value) like any
   other value that is not a string *)
_as_string_of_none(value) ==
  IF IsStr(value) THEN value.s ELSE PyStr(value)

(* _as_string with a fault seeded: a string too goes through repr, which
   puts it in quotes *)
_as_string_repr(value) ==
  IF value.t = "null" THEN <<>> ELSE PyRepr(value)

(* _as_string(value) *)
_as_string(value) ==
  IF IsStr(value) THEN value.s
  ELSE IF value.t = "null" THEN <<>>
  ELSE PyStr(value)

EmptyStr == JStr(<<>>)

(* NormItem with a fault seeded: the fields are coerced but not stripped *)
NormItemNoStrip(item) ==
  JDict([f \in 1..Len(ItemFields) |->
          [k |-> ItemFields[f],
           v |-> JStr(_as_string(DictGet(item, ItemFields[f], EmptyStr)))]])

(* the dict literal of lines 40-47: the six fields, coerced and stripped *)
NormItem(item) ==
  JDict([f \in 1..Len(ItemFields) |->
          [k |-> ItemFields[f],
           v |-> JStr(Strip(_as_string(DictGet(item, ItemFields[f], EmptyStr))))]])

(* g["word"] or g["explanation"] *)
HasWordOrExplanation(g) ==
  DictGet(g, K_word, EmptyStr).s # <<>> \/ DictGet(g, K_explanation, EmptyStr).s # <<>>

(* NormalizedList with a fault seeded: one element that is no mapping makes
   the whole list be dropped *)
NormalizedListAllOrNothing(value) ==
  LET dicts == IF \E i \in 1..Len(value.items) : ~IsDict(value.items[i])
               THEN <<>> ELSE value.items
      res == [i \in 1..Len(dicts) |-> NormItem(dicts[i])]
  IN  SelectSeq(res, HasWordOrExplanation)

(* NormalizedList with a fault seeded: an element that is no mapping is
   kept as an item that holds the element as its explanation *)
NormalizedListPlaceholder(value) ==
  LET dicts == [i \in 1..Len(value.items) |->
                 IF IsDict(value.items[i]) THEN value.items[i]
                 ELSE JDict(<<[k |-> K_explanation, v |-> value.items[i]]>>)]
      res == [i \in 1..Len(dicts) |-> NormItem(dicts[i])]
  IN  SelectSeq(res, HasWordOrExplanation)

(* the filtered list of lines 36-49 *)
NormalizedList(value) ==
  LET dicts == SelectSeq(value.items, IsDict)
      res == [i \in 1..Len(dicts) |-> NormItem(dicts[i])]
  IN  SelectSeq(res, HasWordOrExplanation)

(* _normalize_grammar_items with a fault seeded: a grammar given as text is
   kept as one item that holds the text as its explanation *)
_normalize_grammar_items_text(value) ==
  IF IsList(value) THEN NormalizedList(value)
  ELSE IF IsStr(value) /\ Strip(value.s) # <<>>
    THEN <<NormItem(JDict(<<[k |-> K_explanation, v |-> value]>>))>>
  ELSE <<>>

(* _normalize_grammar_items(value): a sequence of normalized items *)
_normalize_grammar_items(value) ==
  IF IsList(value) THEN NormalizedList(value) ELSE <<>>

(* item.get(k, "").strip() raises AttributeError when item is no dict or
   the value found is no str *)
ItemRaises(item) ==
  \/ ~IsDict(item)
  \/ \E f \in 1..3 : ~IsStr(DictGet(item, ItemFields[f], EmptyStr))

ItemWord(item) == Strip(DictGet(item, K_word, EmptyStr).s)
ItemExplanation(item) == Strip(DictGet(item, K_explanation, EmptyStr).s)
ItemFunction(item) == Strip(DictGet(item, K_function, EmptyStr).s)

(* not (word or explanation): the item gives no line *)
ItemSkipped(item) == ItemWord(item) = <<>> /\ ItemExplanation(item) = <<>>

(* ItemLine with a fault seeded: the parentheses are appended even when
   function is empty *)
ItemLineAlwaysFunction(item) ==
  (IF ItemWord(item) # <<>>
   THEN <<"-", " ">> \o ItemWord(item) \o <<":", " ">> \o ItemExplanation(item)
   ELSE <<"-", " ">> \o ItemExplanation(item))
  \o <<" ", "(">> \o ItemFunction(item) \o <<")">>

(* the line of one item, lines 61-63 *)
ItemLine(item) ==
  (IF ItemWord(item) # <<>>
   THEN <<"-", " ">> \o ItemWord(item) \o <<":", " ">> \o ItemExplanation(item)
   ELSE <<"-", " ">> \o ItemExplanation(item))
  \o (IF ItemFunction(item) # <<>>
      THEN <<" ", "(">> \o ItemFunction(item) \o <<")">>
      ELSE <<>>)

ItemKept(item) == ~ItemSkipped(item)

(* _build_grammar_text(items): [raised, text]; raised stands for the
   AttributeError that leaves the function *)
_build_grammar_text(items) ==
  IF \E i \in 1..Len(items) : ItemRaises(items[i])
  THEN [raised |-> TRUE, text |-> <<>>]
  ELSE LET kept == SelectSeq(items, ItemKept)
       IN  [raised |-> FALSE,
            text |-> Join([i \in 1..Len(kept) |-> ItemLine(kept[i])], <<"\n">>)]

(* lines 82-83: if s.startswith(fence): s = s.strip(backtick) *)
StripFence(s) == IF StartsWith(s, T_fence) THEN StripSet(s, {Backtick}) ELSE s

(* SliceObject with a fault seeded: the comparison of line 87 reversed, so
   that the text is never sliced *)
SliceObjectNever(s) ==
  LET start == Find(s, "{")
      end == RFind(s, "}")
  IN  IF start # 0 /\ end # 0 /\ end < start THEN SubSeq(s, start, end) ELSE s

(* SliceObject with a fault seeded: the slice keeps the text before the
   first { *)
SliceObjectFromStart(s) ==
  LET start == Find(s, "{")
      end == RFind(s, "}")
  IN  IF start # 0 /\ end # 0 /\ end > start THEN SubSeq(s, 1, end) ELSE s

(* lines 85-88: slice from the first { to the last } *)
SliceObject(s) ==
  LET start == Find(s, "{")
      end == RFind(s, "}")
  IN  IF start # 0 /\ end # 0 /\ end > start THEN SubSeq(s, start, end) ELSE s

(* lines 78-93, the value data of the try block: [ok, v]; ok = FALSE stands
   for the JSONDecodeError of json.loads *)
StructuralParse(p) ==
  IF IsStr(p) THEN JsonLoads(SliceObject(StripFence(Strip(p.s))))
  ELSE IF IsDict(p) THEN [ok |-> TRUE, v |-> p]
  ELSE [ok |-> TRUE, v |-> JDict(<<>>)]

(* DirectStage with a fault seeded: original and translation are stripped
   without _as_string, so a value that is no string raises in the try
   block *)
DirectStageStrict(p) ==
  LET data == StructuralParse(p)
      o == DictGet(data.v, K_original, EmptyStr)
      t == DictGet(data.v, K_translation, EmptyStr)
  IN  IF data.ok /\ IsDict(data.v) /\ IsStr(o) /\ IsStr(t)
      THEN [ok |-> TRUE,
            original |-> Strip(o.s),
            translation |-> Strip(t.s),
            items |-> _normalize_grammar_items(DictGet(data.v, K_grammar, JList(<<>>)))]
      ELSE [ok |-> FALSE, original |-> <<>>, translation |-> <<>>, items |-> <<>>]

(* lines 77-97, the try block: [ok, original, translation, items];
   ok = FALSE stands for an exception (JSONDecodeError from json.loads, or
   AttributeError from data.get when the text parsed is not an object) *)
DirectStage(p) ==
  LET data == StructuralParse(p)
  IN  IF data.ok /\ IsDict(data.v)
      THEN [ok |-> TRUE,
            original |-> Strip(_as_string(DictGet(data.v, K_original, EmptyStr))),
            translation |-> Strip(_as_string(DictGet(data.v, K_translation, EmptyStr))),
            items |-> _normalize_grammar_items(DictGet(data.v, K_grammar, JList(<<>>)))]
      ELSE [ok |-> FALSE, original |-> <<>>, translation |-> <<>>, items |-> <<>>]

(* line 103: re.sub of the pattern "fence, then optionally json" by "" *)
RECURSIVE ReSubFence(_, _)
ReSubFence(s, i) ==
  LET hits == {j \in i..Len(s) : MatchAt(s, j, T_fence)}
      j == Min(hits)
      after == IF MatchAt(s, j + Len(T_fence), T_json)
               THEN j + Len(T_fence) + Len(T_json)
               ELSE j + Len(T_fence)
  IN  IF hits = {} THEN SubSeq(s, i, Len(s))
      ELSE SubSeq(s, i, j - 1) \o ReSubFence(s, after)

NoMatch == [found |-> FALSE, val |-> <<>>]

(* the pattern  "name" \s* : \s* open ([\s\S]*?) close  tried at index i:
   the quoted name, optional whitespace, a colon, optional whitespace, the
   character open, then the shortest text up to the next character close.
   withDelims tells whether the group holds open and close too. *)
PatternAt(s, i, name, open, close, withDelims) ==
  LET q == <<"\"">> \o name \o <<"\"">>
      c == SkipWs(s, i + Len(q))
      d == SkipWs(s, c + 1)
      e == IndexFrom(s, d + 1, close)
  IN  IF /\ MatchAt(s, i, q)
         /\ c <= Len(s) /\ s[c] = ":"
         /\ d <= Len(s) /\ s[d] = open
         /\ e # 0
      THEN [found |-> TRUE,
            val |-> IF withDelims THEN SubSeq(s, d, e) ELSE SubSeq(s, d + 1, e - 1)]
      ELSE NoMatch

(* re.search: the leftmost index at which the pattern matches *)
PatternSearch(s, i, name, open, close, withDelims) ==
  LET hits == {j \in i..Len(s) : PatternAt(s, j, name, open, close, withDelims).found}
  IN  IF hits = {} THEN NoMatch
      ELSE PatternAt(s, Min(hits), name, open, close, withDelims)

(* lines 105, 106, 128: re.search(r'"name"\s*:\s*"([\s\S]*?)"', s) *)
SearchField(name, s) == PatternSearch(s, 1, name, "\"", "\"", FALSE)

(* line 112: re.search(r'"grammar"\s*:\s*(\[[\s\S]*?\])', s) *)
SearchGrammar(s) == PatternSearch(s, 1, K_grammar, "[", "]", TRUE)

(* line 119: re.sub(r",\s*\]", "]", gram_str) *)
CommaBracketAt(s, i) ==
  s[i] = "," /\ SkipWs(s, i + 1) <= Len(s) /\ s[SkipWs(s, i + 1)] = "]"

RECURSIVE ReSubTrailingComma(_, _)
ReSubTrailingComma(s, i) ==
  LET hits == {j \in i..Len(s) : CommaBracketAt(s, j)}
      j == Min(hits)
  IN  IF hits = {} THEN SubSeq(s, i, Len(s))
      ELSE SubSeq(s, i, j - 1) \o <<"]">> \o ReSubTrailingComma(s, SkipWs(s, j + 1) + 1)

(* line 124: re.findall(r"\{[\s\S]*?\}", gram_str): from each { to the
   next }, left to right, without overlap *)
RECURSIVE FindAllObjects(_, _)
FindAllObjects(s, i) ==
  LET b == IndexFrom(s, i, "{")
      e == IndexFrom(s, b + 1, "}")
  IN  IF b = 0 \/ e = 0 THEN <<>>
      ELSE <<SubSeq(s, b, e)>> \o FindAllObjects(s, e + 1)

(* lines 127-129: _field(name) on the text of one object *)
_field(name, obj) ==
  LET m == SearchField(name, obj) IN IF m.found THEN Strip(m.val) ELSE <<>>

(* lines 130-137: the item built from the text of one object *)
ExtractedItem(obj) ==
  JDict([f \in 1..Len(ItemFields) |->
          [k |-> ItemFields[f], v |-> JStr(_field(ItemFields[f], obj))]])

(* ExtractItems with a fault seeded: every object found gives an item, also
   one with neither word nor explanation *)
ExtractItemsKeepAll(gram_str) ==
  LET objs == FindAllObjects(gram_str, 1)
  IN  [i \in 1..Len(objs) |-> ExtractedItem(objs[i])]

(* lines 124-140: the last resort *)
ExtractItems(gram_str) ==
  LET objs == FindAllObjects(gram_str, 1)
      all == [i \in 1..Len(objs) |-> ExtractedItem(objs[i])]
  IN  SelectSeq(all, HasWordOrExplanation)

(* GrammarFromText with a fault seeded: when the text of the array does not
   parse, nothing more is tried *)
GrammarFromTextGivesUp(gram_str) ==
  LET first == JsonLoads(gram_str)
  IN  IF first.ok THEN first.v.items ELSE <<>>

(* lines 114-140: the items taken from the text of the grammar array *)
GrammarFromText(gram_str) ==
  LET first == JsonLoads(gram_str)
      second == JsonLoads(ReSubTrailingComma(gram_str, 1))
  IN  IF first.ok THEN first.v.items
      ELSE IF second.ok THEN second.v.items
      ELSE ExtractItems(gram_str)

(* RegexStage with a fault seeded: when no original is found the raw text
   is taken as the original *)
RegexStageRawOriginal(p, o, t, items) ==
  LET s == ReSubFence(IF IsStr(p) THEN p.s ELSE JsonDumps(p), 1)
      m_orig == SearchField(K_original, s)
      m_trans == SearchField(K_translation, s)
      m_gram == SearchGrammar(s)
  IN  [original |-> IF m_orig.found THEN Strip(m_orig.val) ELSE Strip(s),
       translation |-> IF m_trans.found THEN Strip(m_trans.val) ELSE t,
       items |-> IF m_gram.found THEN GrammarFromText(m_gram.val) ELSE items]

(* lines 99-143, the except block, entered with the values o, t, items the
   try block left: [original, translation, items] *)
RegexStage(p, o, t, items) ==
  LET s == ReSubFence(IF IsStr(p) THEN p.s ELSE JsonDumps(p), 1)
      m_orig == SearchField(K_original, s)
      m_trans == SearchField(K_translation, s)
      m_gram == SearchGrammar(s)
  IN  [original |-> IF m_orig.found THEN Strip(m_orig.val) ELSE o,
       translation |-> IF m_trans.found THEN Strip(m_trans.val) ELSE t,
       items |-> IF m_gram.found THEN GrammarFromText(m_gram.val) ELSE items]

(* AssembleRecord with a fault seeded: every line of the text ends with a
   newline *)
AssembleRecordTrailingNewline(o, t, items) ==
  LET g == _build_grammar_text(items)
  IN  [raised |-> g.raised,
       rec |-> [original |-> o, translation |-> t,
                grammar |-> IF g.text = <<>> THEN <<>> ELSE g.text \o <<"\n">>,
                grammar_json |-> items]]

(* lines 145-152: the record returned: [raised, rec] *)
AssembleRecord(o, t, items) ==
  LET g == _build_grammar_text(items)
  IN  [raised |-> g.raised,
       rec |-> [original |-> o, translation |-> t,
                grammar |-> g.text, grammar_json |-> items]]

(* parse_and_validate_translation(payload) as one function: [raised, rec] *)
parse_and_validate_translation(p) ==
  LET d == DirectStage(p)
      r == RegexStage(p, <<>>, <<>>, <<>>)
  IN  IF d.ok THEN AssembleRecord(d.original, d.translation, d.items)
      ELSE AssembleRecord(r.original, r.translation, r.items)

----------------------------------------------------------------------------
(* The payloads handed to parse_and_validate_translation.  An input is
   [form, obj]: obj is the response object, form is how it reaches the
   function: as a mapping, or as text, clean, wrapped or damaged. *)

MaxItems == 2

Entry(k, opt) == IF opt = <<>> THEN <<>> ELSE <<[k |-> k, v |-> opt[1]]>>

(* a field is absent (the empty tuple) or holds a value (a one-tuple) *)
OriginalOptions ==
  {<<>>, <<JStr(<<"a">>)>>, <<JStr(<<" ", "a">>)>>, <<JNum(5)>>}

TranslationOptions == {<<>>, <<JStr(<<"b">>)>>}

FreeTexts == {<<"x">>, <<"[", "y", "]">>, <<"}", "\"">>}

ItemFull ==
  JDict(<<[k |-> K_word, v |-> JStr(<<"w">>)],
          [k |-> K_explanation, v |-> JStr(<<"e">>)],
          [k |-> K_function, v |-> JStr(<<"f">>)]>>)
ItemPadded == JDict(<<[k |-> K_explanation, v |-> JStr(<<" ", "e">>)]>>)
ItemBlank == JDict(<<[k |-> K_word, v |-> JStr(<<" ">>)]>>)
ItemEmpty ==
  JDict(<<[k |-> K_word, v |-> JStr(<<>>)],
          [k |-> K_explanation, v |-> JStr(<<>>)]>>)
ItemNumberWord ==
  JDict(<<[k |-> K_word, v |-> JNum(3)],
          [k |-> K_explanation, v |-> JStr(<<"e">>)]>>)
ItemNotMapping == JNum(7)

ItemChoices ==
  {ItemFull, ItemPadded, ItemBlank, ItemEmpty, ItemNumberWord, ItemNotMapping}

ItemLists == UNION {[1..n -> ItemChoices] : n \in 0..MaxItems}

GrammarOptions ==
  {<<>>} \cup {<<JStr(t)>> : t \in FreeTexts} \cup {<<JList(l)>> : l \in ItemLists}

(* an object whose fields are null, a number and a boolean *)
ObjNulls ==
  JDict(<<[k |-> K_original, v |-> JNull],
          [k |-> K_translation, v |-> JNum(5)],
          [k |-> K_grammar,
           v |-> JList(<<JDict(<<[k |-> K_word, v |-> JNull],
                                 [k |-> K_explanation, v |-> JBool(TRUE)],
                                 [k |-> K_function, v |-> JStr(<<"f">>)]>>)>>)]>>)

(* an object whose array holds a closing bracket inside a string *)
ObjBracketWord ==
  JDict(<<[k |-> K_original, v |-> JStr(<<"a">>)],
          [k |-> K_grammar,
           v |-> JList(<<JDict(<<[k |-> K_word, v |-> JStr(<<"a", "]">>)],
                                 [k |-> K_explanation, v |-> JStr(<<"e">>)]>>),
                         ItemFull>>)]>>)

ObjFull ==
  JDict(<<[k |-> K_original, v |-> JStr(<<"a">>)],
          [k |-> K_translation, v |-> JStr(<<"b">>)],
          [k |-> K_grammar, v |-> JList(<<ItemFull>>)]>>)

ObjPadded ==
  JDict(<<[k |-> K_original, v |-> JStr(<<" ", "a">>)],
          [k |-> K_grammar, v |-> JList(<<ItemPadded, ItemBlank>>)]>>)

(* the objects whose grammar array is also written without the commas
   between its elements *)
NoCommaObjects ==
  {JDict(<<[k |-> K_original, v |-> JStr(<<"a">>)],
           [k |-> K_translation, v |-> JStr(<<"b">>)],
           [k |-> K_grammar, v |-> JList(<<ItemFull, ItemPadded>>)]>>),
   ObjPadded, ObjBracketWord}

(* objects with fields that are lists, booleans and null, with a quote in
   original or in translation, with a closing bracket in a string of the
   array, with a nested array, and with whitespace around original and
   translation *)
SpecialObjects ==
  {ObjNulls,
   JDict(<<[k |-> K_original, v |-> JList(<<JNum(1), JStr(<<"a">>)>>)],
           [k |-> K_translation, v |-> JNull]>>),
   JDict(<<[k |-> K_original, v |-> JBool(TRUE)],
           [k |-> K_translation, v |-> JBool(FALSE)],
           [k |-> K_grammar, v |-> JNull]>>),
   JDict(<<[k |-> K_original, v |-> JStr(<<"q", "\"", "r">>)],
           [k |-> K_translation, v |-> JStr(<<"b">>)]>>),
   JDict(<<[k |-> K_original, v |-> JStr(<<"a">>)],
           [k |-> K_translation, v |-> JStr(<<"\"", "t">>)]>>),
   ObjBracketWord,
   JDict(<<[k |-> K_translation, v |-> JStr(<<"b">>)],
           [k |-> K_grammar, v |-> JList(<<JList(<<JNum(1)>>), ItemFull>>)]>>),
   JDict(<<[k |-> K_original, v |-> JStr(<<"a", " ">>)],
           [k |-> K_translation, v |-> JStr(<<" ", "b", "\t">>)]>>)}

Objects ==
  {JDict(Entry(K_original, o) \o Entry(K_translation, t) \o Entry(K_grammar, g)) :
     o \in OriginalOptions, t \in TranslationOptions, g \in GrammarOptions}
  \cup SpecialObjects

T_Result == <<"R", "e", "s", "u", "l", "t", ":", " ">>
T_End == <<" ", "E", "n", "d">>
T_notjson == <<"n", "o", "t", "-", "j", "s", "o", "n">>

GarbageTexts == {T_notjson, <<"1", "2", "3">>, <<>>}

(* prose that itself looks like a field and holds brackets, but no brace *)
T_QuotedLead == <<"\"">> \o K_original \o <<"\"", ":", " ", "\"", "z", "\"", " ">>
T_BracketTail == <<" ", "]", " ", Backtick>>

TextForms == {"plain", "prose", "quotedprose", "fence", "fencejson", "commaObj", "trunc"}

HasGrammarList(obj) == HasKey(obj, K_grammar) /\ IsList(DictGet(obj, K_grammar, JNull))

Inputs ==
  {[form |-> f, obj |-> o] : f \in {"map"} \cup TextForms, o \in Objects}
  \cup {[form |-> "commaArr", obj |-> o] : o \in {x \in Objects : HasGrammarList(x)}}
  \cup {[form |-> "noComma", obj |-> o] : o \in NoCommaObjects}
  \cup {[form |-> "garbage", obj |-> JStr(t)] : t \in GarbageTexts}

(* the text of a list with a comma left before the closing bracket *)
TrailingCommaList(v) ==
  LET t == JsonDumps(v) IN SubSeq(t, 1, Len(t) - 1) \o <<",", "]">>

(* the text of the object; with brokenArray the grammar array has a
   trailing comma *)
ObjectText(obj, brokenArray) ==
  <<"{">> \o Join([i \in 1..Len(obj.items) |->
                    Quoted(obj.items[i].k) \o <<":", " ">>
                    \o (IF brokenArray /\ obj.items[i].k = K_grammar
                        THEN TrailingCommaList(obj.items[i].v)
                        ELSE JsonDumps(obj.items[i].v))],
                  <<",", " ">>)
          \o <<"}">>

CleanText(obj) == ObjectText(obj, FALSE)

(* the text of the object with the elements of the grammar array separated
   by a space, the commas between them missing *)
NoCommaText(obj) ==
  <<"{">> \o Join([i \in 1..Len(obj.items) |->
                    Quoted(obj.items[i].k) \o <<":", " ">>
                    \o (IF obj.items[i].k = K_grammar
                        THEN <<"[">>
                             \o Join([j \in 1..Len(obj.items[i].v.items) |->
                                       JsonDumps(obj.items[i].v.items[j])], <<" ">>)
                             \o <<"]">>
                        ELSE JsonDumps(obj.items[i].v))],
                  <<",", " ">>)
          \o <<"}">>

ProseWrapped(t) == T_Result \o t \o T_End
QuotedProseWrapped(t) == T_QuotedLead \o t \o T_BracketTail
Fenced(t) == T_fence \o <<"\n">> \o t \o <<"\n">> \o T_fence
FencedJson(t) == T_fence \o T_json \o <<"\n">> \o t \o <<"\n">> \o T_fence

(* the payload of an input *)
PayloadOf(i) ==
  LET t == CleanText(i.obj)
  IN  IF i.form = "map" THEN i.obj
      ELSE IF i.form = "garbage" THEN i.obj
      ELSE IF i.form = "plain" THEN JStr(t)
      ELSE IF i.form = "prose" THEN JStr(ProseWrapped(t))
      ELSE IF i.form = "quotedprose" THEN JStr(QuotedProseWrapped(t))
      ELSE IF i.form = "fence" THEN JStr(Fenced(t))
      ELSE IF i.form = "fencejson" THEN JStr(FencedJson(t))
      ELSE IF i.form = "commaArr" THEN JStr(ObjectText(i.obj, TRUE))
      ELSE IF i.form = "noComma" THEN JStr(NoCommaText(i.obj))
      ELSE IF i.form = "commaObj" THEN JStr(SubSeq(t, 1, Len(t) - 1) \o <<",", "}">>)
      ELSE JStr(SubSeq(t, 1, Len(t) - 2))

(* no call in flight, and the record before any field is set *)
NoInput == [form |-> "none", obj |-> JNull]

EmptyRecord ==
  [original |-> <<>>, translation |-> <<>>, grammar |-> <<>>, grammar_json |-> <<>>]

----------------------------------------------------------------------------
(* popup_launcher.py: launch_popup_subprocess(sections) *)

MaxLaunches == 2

(* the value of a variable that is not in the environment *)
Unset == "UNSET"

EnvNames == {"POPUP_SIMULATE", "TIMINGS_ONLY", "POPUP_DEBUG"}
(* the values a variable is given: the flag of line 24 is also set to 0 *)
EnvValues(n) == IF n = "POPUP_SIMULATE" THEN {Unset, "0", "1"} ELSE {Unset, "1"}

(* the first eight characters of a uuid4: two of them stand for all *)
PopupIds == {"id1", "id2"}

K_grammar_json ==
  <<"g", "r", "a", "m", "m", "a", "r", "_", "j", "s", "o", "n">>

(* a record returned by parse_and_validate_translation as the mapping that
   is handed to the launcher *)
RecordValue(rec) ==
  JDict(<<[k |-> K_original, v |-> JStr(rec.original)],
          [k |-> K_translation, v |-> JStr(rec.translation)],
          [k |-> K_grammar, v |-> JStr(rec.grammar)],
          [k |-> K_grammar_json, v |-> JList(rec.grammar_json)]>>)

SectionsChoices ==
  {RecordValue(EmptyRecord),
   RecordValue([original |-> <<"a">>, translation |-> <<"b">>,
                grammar |-> _build_grammar_text(_normalize_grammar_items(
                              JList(<<ItemFull>>))).text,
                grammar_json |-> _normalize_grammar_items(JList(<<ItemFull>>))])}

(* os.getenv(name, default) *)
Getenv(name, default) ==
  IF environ[name] = Unset THEN default ELSE environ[name]

(* Simulated with a fault seeded: the flag is read from POPUP_DEBUG *)
SimulatedReadsDebug == Getenv("POPUP_DEBUG", "0") = "1"

(* line 24: os.getenv('POPUP_SIMULATE', '0') == '1' *)
Simulated == Getenv("POPUP_SIMULATE", "0") = "1"

(* line 66 *)
Suppress ==
  Getenv("TIMINGS_ONLY", "0") = "1" /\ Getenv("POPUP_DEBUG", "0") # "1"

(* lines 28-30: the temporary .json file holding json.dump(sections) *)
DataFile(s) ==
  [suffix |-> "json", text |-> JsonDumps(s), popup_id |-> "", reads |-> 0,
   exists |-> TRUE]

(* lines 33-63: the temporary .py file holding the script, which names the
   popup and the data file it reads and unlinks *)
ScriptFile(id, data) ==
  [suffix |-> "py", text |-> <<>>, popup_id |-> id, reads |-> data,
   exists |-> TRUE]

(* lines 67-76: the process running the script; stdout and stderr are
   subprocess.DEVNULL or None, that is the stream inherited *)
Process(script) ==
  LET stream == IF Suppress THEN "DEVNULL" ELSE "inherited"
  IN  [script |-> script, stdout |-> stream, stderr |-> stream,
       hidden |-> platform = "win32", alive |-> TRUE]

LauncherInit ==
  /\ environ = [n \in EnvNames |-> Unset]
  /\ lpc = "idle"
  /\ sections = JNull
  /\ files = <<>>
  /\ procs = <<>>
  /\ ret = "pending"

----------------------------------------------------------------------------
(* Several calls of parse_and_validate_translation in flight at once *)

MaxCalls == 2

CallIds == 1..MaxCalls

(* payloads of every path: direct, regex recovery, raising *)
ConcurrentInputs ==
  {[form |-> "map", obj |-> ObjFull],
   [form |-> "commaArr", obj |-> ObjFull],
   [form |-> "commaObj", obj |-> ObjPadded],
   [form |-> "commaObj",
    obj |-> JDict(<<[k |-> K_grammar, v |-> JList(<<ItemNotMapping>>)]>>)],
   [form |-> "garbage", obj |-> JStr(T_notjson)]}

IdleCall ==
  [pc |-> "idle", inp |-> NoInput, payload |-> JNull, result |-> EmptyRecord,
   mixed |-> FALSE]

(* the locals of lines 73-75 *)
FreshFrame == [original |-> <<>>, translation |-> <<>>, grammar_items |-> <<>>]

CallsInit ==
  /\ calls = [c \in CallIds |-> IdleCall]
  /\ frames = [f \in CallIds |-> FreshFrame]

----------------------------------------------------------------------------
(* The call as a state machine: pc is the position in
   parse_and_validate_translation *)

----------------------------------------------------------------------------
(* modern_popup_pyqt6.py: the two entry points mostrar_explicacion_moderna_pyqt6
   and show_modern_popup, and the two creators _create_subprocess_popup and
   _create_modern_subprocess_popup.  Time is counted in half seconds. *)

MaxRequests == 3
MaxTime == 12

(* lines 1111, 1358: the 2.0 seconds of the debounce, in half seconds *)
Window == 4
(* lines 1258, 1470: time.sleep(0.5), in half seconds *)
SleepTime == 1

Entries == {"mostrar_explicacion_moderna_pyqt6", "show_modern_popup"}

(* the argument of an entry point: a text, or a value that is no str, on
   which texto.split of line 1280 raises; a request is the entry point
   called, its argument, whether the caller is the main thread, the creator
   it reaches, the processes in the list when the creator is called, the
   process the creator starts and what process.poll() finds *)
PopupTextos == {"text", "notstr"}

NoRequest ==
  [entry |-> "none", texto |-> "none", main_thread |-> FALSE,
   creator |-> "none", registered |-> {}, process |-> 0, exited |-> FALSE]

(* a process as subprocess.Popen gives it, and after process.kill() *)
Started == [alive |-> TRUE, killed |-> FALSE]
Killed(p) == [p EXCEPT !.alive = FALSE, !.killed = TRUE]

(* the elements of a list *)
Elements(list) == {list[i] : i \in 1..Len(list)}

(* list.remove(x): the first occurrence is taken out *)
Remove(list, x) ==
  LET i == Min({j \in 1..Len(list) : list[j] = x})
  IN  SubSeq(list, 1, i - 1) \o SubSeq(list, i + 1, Len(list))

(* lines 1101-1102: the globals when the module is loaded; the clock has
   run for more than the window since time 0 *)
PopupInit ==
  /\ clock = Window
  /\ _last_popup_time = 0
  /\ _active_popup_processes = <<>>
  /\ processes = <<>>
  /\ ppc = "idle"
  /\ request = NoRequest
  /\ popup_ret = "None"
  /\ requests = 0
  /\ accepted = <<>>

----------------------------------------------------------------------------
(* main.py: SubtitleTranslator.translate_text_with_explanation and
   SubtitleTranslator.execute_translation *)

MaxTranslations == 2

(* line 215 *)
T_NoText ==
  <<"N", "o", " ", "t", "e", "x", "t", " ", "d", "e", "t", "e", "c", "t",
    "e", "d", " ", "i", "n", " ", "t", "h", "e", " ", "i", "m", "a", "g",
    "e", ".">>

(* line 218 *)
T_NoClient ==
  <<"E", "r", "r", "o", "r", ":", " ", "O", "p", "e", "n", "A", "I", " ",
    "A", "P", "I", " ", "k", "e", "y", " ", "n", "o", "t", " ", "c", "o",
    "n", "f", "i", "g", "u", "r", "e", "d", ".">>

(* line 318 *)
T_TranslationError ==
  <<"T", "r", "a", "n", "s", "l", "a", "t", "i", "o", "n", " ", "e", "r",
    "r", "o", "r", ":", " ">>

(* str(e) of an exception raised by the API call *)
T_ApiFailure ==
  <<"C", "o", "n", "n", "e", "c", "t", "i", "o", "n", " ", "e", "r", "r",
    "o", "r", ".">>

(* str(e) of the AttributeError of line 277 when the content of the response
   is None *)
T_NoneHasNoStrip ==
  <<"'", "N", "o", "n", "e", "T", "y", "p", "e", "'", " ", "o", "b", "j",
    "e", "c", "t", " ", "h", "a", "s", " ", "n", "o", " ", "a", "t", "t",
    "r", "i", "b", "u", "t", "e", " ", "'", "s", "t", "r", "i", "p", "'">>

(* the function cached for the three words of word_cache *)
W_interjeccion ==
  <<"i", "n", "t", "e", "r", "j", "e", "c", "c", "i", "ó", "n">>

(* lines 67-71: word_cache *)
WordCache ==
  JDict(<<
   [k |-> <<"c", "i", "a", "o">>,
    v |-> JDict(<<[k |-> K_translation, v |-> JStr(<<"h", "o", "l", "a">>)],
                  [k |-> K_grammar,
                   v |-> JList(<<JDict(<<[k |-> K_word, v |-> JStr(<<"c", "i", "a", "o">>)],
                       [k |-> K_explanation,
                        v |-> JStr(<<"s", "a", "l", "u", "d", "o", " ", "i", "n", "f", "o", "r", "m", "a", "l">>)],
                       [k |-> K_function,
                        v |-> JStr(W_interjeccion)]>>)>>)]>>)],
   [k |-> <<"g", "r", "a", "z", "i", "e">>,
    v |-> JDict(<<[k |-> K_translation, v |-> JStr(<<"g", "r", "a", "c", "i", "a", "s">>)],
                  [k |-> K_grammar,
                   v |-> JList(<<JDict(<<[k |-> K_word, v |-> JStr(<<"g", "r", "a", "z", "i", "e">>)],
                       [k |-> K_explanation,
                        v |-> JStr(<<"e", "x", "p", "r", "e", "s", "i", "ó", "n", " ", "d", "e", " ", "a", "g", "r", "a", "d", "e", "c", "i", "m", "i", "e", "n", "t", "o">>)],
                       [k |-> K_function,
                        v |-> JStr(W_interjeccion)]>>)>>)]>>)],
   [k |-> <<"p", "r", "e", "g", "o">>,
    v |-> JDict(<<[k |-> K_translation, v |-> JStr(<<"d", "e", " ", "n", "a", "d", "a">>)],
                  [k |-> K_grammar,
                   v |-> JList(<<JDict(<<[k |-> K_word, v |-> JStr(<<"p", "r", "e", "g", "o">>)],
                       [k |-> K_explanation,
                        v |-> JStr(<<"r", "e", "s", "p", "u", "e", "s", "t", "a", " ", "a", " ", "g", "r", "a", "c", "i", "a", "s">>)],
                       [k |-> K_function,
                        v |-> JStr(W_interjeccion)]>>)>>)]>>)]>>)

(* str.lower() on the letters A to Z *)
UpperLetters ==
  <<"A", "B", "C", "D", "E", "F", "G", "H", "I", "J", "K", "L", "M", "N",
    "O", "P", "Q", "R", "S", "T", "U", "V", "W", "X", "Y", "Z">>

LowerLetters ==
  <<"a", "b", "c", "d", "e", "f", "g", "h", "i", "j", "k", "l", "m", "n",
    "o", "p", "q", "r", "s", "t", "u", "v", "w", "x", "y", "z">>

Lower(s) ==
  [i \in 1..Len(s) |->
     IF \E n \in 1..Len(UpperLetters) : UpperLetters[n] = s[i]
     THEN LowerLetters[CHOOSE n \in 1..Len(UpperLetters) : UpperLetters[n] = s[i]]
     ELSE s[i]]

(* CacheKey with a fault seeded: the text is looked up as it was typed *)
CacheKeyAsTyped(t) == t

(* line 221: texto.lower().strip() *)
CacheKey(t) == Strip(Lower(t))

(* lines 214-219 and 222: the call returns before any API call *)
ReturnsEarly(t, configured) ==
  t = <<>> \/ ~configured \/ HasKey(WordCache, CacheKey(t))

(* lines 214-230: what an early return gives *)
EarlyResult(t, configured, cache) ==
  IF t = <<>> THEN T_NoText
  ELSE IF ~configured THEN T_NoClient
  ELSE LET cached_result == DictGet(cache, CacheKey(t), JNull)
       IN  JsonDumps(JDict(
             <<[k |-> K_original, v |-> JStr(t)],
               [k |-> K_translation, v |-> DictGet(cached_result, K_translation, JNull)],
               [k |-> K_grammar, v |-> DictGet(cached_result, K_grammar, JNull)]>>))

(* lines 280-290: _extract_json_block(s) *)
_extract_json_block(s) ==
  LET stripped == Strip(s)
      unfenced == IF StartsWith(stripped, T_fence)
                  THEN StripSet(stripped, {Backtick}) ELSE stripped
      start == Find(unfenced, "{")
      end == RFind(unfenced, "}")
  IN  IF start # 0 /\ end # 0 /\ end > start
      THEN SubSeq(unfenced, start, end) ELSE unfenced

(* lines 277-304: the result made of the content of the response: the
   canonical JSON of its three fields, or the stripped content when it does
   not parse into a mapping *)
ResultOfContent(content) ==
  LET text == Strip(content)
      parsed == JsonLoads(_extract_json_block(text))
  IN  IF parsed.ok /\ IsDict(parsed.v)
      THEN JsonDumps(JDict(
             <<[k |-> K_original, v |-> DictGet(parsed.v, K_original, EmptyStr)],
               [k |-> K_translation, v |-> DictGet(parsed.v, K_translation, EmptyStr)],
               [k |-> K_grammar, v |-> DictGet(parsed.v, K_grammar, JList(<<>>))]>>))
      ELSE text

(* the texts handed to translate_text_with_explanation: empty, a cached
   word, a cached word in capitals with a space after it, and a word that is
   not cached; extraer_texto returns stripped text *)
T_si == <<"s", "i">>
Textos == {<<>>, <<"c", "i", "a", "o">>, <<"C", "i", "a", "o", " ">>, T_si}
ExtractedTexts == {<<>>, <<"c", "i", "a", "o">>, T_si}

(* the contents of the responses of the API: an object inside a json fence
   with whitespace around it, an object with a trailing comma whose array
   holds a number, and an array *)
Contents ==
  {<<" ">> \o FencedJson(CleanText(ObjFull)) \o <<"\n">>,
   <<"{">> \o Quoted(K_grammar) \o <<":", " ", "[", "7", "]", ",", "}">>,
   <<"[", "1", "]">>}

(* what a call saw when it started: the API calls made, the history, the
   processes spawned *)
NoSnapshot == [api_calls |-> 0, translation_history |-> <<>>, procs |-> 0]

(* lines 60-71: the translator after __init__; DEBUG and POPUP_SIMULATE are
   read from the environment *)
TranslatorInit ==
  /\ client = TRUE
  /\ debug = FALSE
  /\ word_cache = WordCache
  /\ translation_history = <<>>
  /\ api_calls = 0
  /\ tpc = "idle"
  /\ texto = <<>>
  /\ translated = <<>>
  /\ response = "none"
  /\ snapshot = NoSnapshot
  /\ epc = "idle"
  /\ imagen = "None"
  /\ validated = [raised |-> FALSE, rec |-> EmptyRecord]
  /\ executed = "pending"
  /\ steps = <<>>

ValidationInit ==
  /\ pc = "idle"
  /\ payload = JNull
  /\ inp = NoInput
  /\ original = <<>>
  /\ translation = <<>>
  /\ grammar_items = <<>>
  /\ result = EmptyRecord
  /\ stages = <<>>

Init ==
  /\ ValidationInit
  /\ CallsInit
  /\ LauncherInit
  /\ PopupInit
  /\ TranslatorInit
  /\ platform = "linux"

(* the caller passes a payload; lines 73-75 set the defaults *)
Call ==
  /\ pc = "idle"
  /\ \E i \in Inputs :
       /\ inp' = i
       /\ payload' = PayloadOf(i)
  /\ original' = <<>>
  /\ translation' = <<>>
  /\ grammar_items' = <<>>
  /\ pc' = "direct"
  /\ stages' = <<>>
  /\ UNCHANGED result
  /\ UNCHANGED outsideValidation

(* lines 77-97: the try block succeeds: the structural parse of lines 78-93,
   then the field extraction of lines 95-97 *)
DirectParse ==
  /\ pc = "direct"
  /\ LET d == DirectStage(payload)
     IN  /\ d.ok
         /\ original' = d.original
         /\ translation' = d.translation
         /\ grammar_items' = d.items
  /\ pc' = "assemble"
  /\ stages' = <<"parse", "extract">>
  /\ UNCHANGED <<payload, inp, result>>
  /\ UNCHANGED outsideValidation

(* line 98: the try block raised before any assignment: json.loads raised,
   or it returned a value that is not a mapping and data.get of line 95
   raised *)
DirectFails ==
  /\ pc = "direct"
  /\ ~DirectStage(payload).ok
  /\ pc' = "regex"
  /\ stages' = IF StructuralParse(payload).ok THEN <<"parse", "extract">>
               ELSE <<"parse">>
  /\ UNCHANGED <<payload, inp, original, translation, grammar_items, result>>
  /\ UNCHANGED outsideValidation

(* lines 99-143 *)
RegexRecovery ==
  /\ pc = "regex"
  /\ LET r == RegexStage(payload, original, translation, grammar_items)
     IN  /\ original' = r.original
         /\ translation' = r.translation
         /\ grammar_items' = r.items
  /\ pc' = "assemble"
  /\ stages' = Append(stages, "regex")
  /\ UNCHANGED <<payload, inp, result>>
  /\ UNCHANGED outsideValidation

(* lines 145-152: the record is returned *)
FinalAssembly ==
  /\ pc = "assemble"
  /\ LET a == AssembleRecord(original, translation, grammar_items)
     IN  /\ ~a.raised
         /\ result' = a.rec
  /\ pc' = "returned"
  /\ stages' = Append(stages, "assemble")
  /\ UNCHANGED <<payload, inp, original, translation, grammar_items>>
  /\ UNCHANGED outsideValidation

(* line 145: _build_grammar_text raises and the exception leaves the call *)
AssemblyRaises ==
  /\ pc = "assemble"
  /\ AssembleRecord(original, translation, grammar_items).raised
  /\ pc' = "raised"
  /\ stages' = Append(stages, "assemble")
  /\ UNCHANGED <<payload, inp, original, translation, grammar_items, result>>
  /\ UNCHANGED outsideValidation

(* the call is over; the caller may call again *)
Finish ==
  /\ pc \in {"returned", "raised"}
  /\ pc' = "idle"
  /\ payload' = JNull
  /\ inp' = NoInput
  /\ original' = <<>>
  /\ translation' = <<>>
  /\ grammar_items' = <<>>
  /\ result' = EmptyRecord
  /\ stages' = <<>>
  /\ UNCHANGED outsideValidation

Next ==
  \/ Call
  \/ DirectParse
  \/ DirectFails
  \/ RegexRecovery
  \/ FinalAssembly
  \/ AssemblyRaises
  \/ Finish

Spec == Init /\ [][Next]_vars

----------------------------------------------------------------------------
(* Properties *)

Returned == pc = "returned"
Over == pc \in {"returned", "raised"}

(* what the call in the current state gave: [raised, rec] *)
Outcome == [raised |-> pc = "raised", rec |-> result]

(* the outcome of a whole call on payload p, with rec blank when it raises *)
OutcomeOf(p) ==
  LET r == parse_and_validate_translation(p)
  IN  [raised |-> r.raised, rec |-> IF r.raised THEN EmptyRecord ELSE r.rec]

ObjOriginal == DictGet(inp.obj, K_original, JNull)
ObjTranslation == DictGet(inp.obj, K_translation, JNull)
ObjGrammar == DictGet(inp.obj, K_grammar, JNull)

(* C1: parse_and_validate_translation never raises: every call on a string
   or mapping payload ends by returning a record. *)
C1_NeverRaises == pc # "raised"

(* a mapping that carries all six fields as strings *)
IsTotalItem(e) ==
  /\ IsDict(e)
  /\ \A f \in 1..Len(ItemFields) :
       HasKey(e, ItemFields[f]) /\ IsStr(DictGet(e, ItemFields[f], JNull))

(* C2: every returned record has every element of grammar_json a mapping
   that carries the six fields word, explanation, function,
   additional_info, examples, difficulty as strings, on the direct-parse
   path and on the regex-recovery path. *)
C2_TotalRecord ==
  Returned => \A i \in 1..Len(result.grammar_json) : IsTotalItem(result.grammar_json[i])

(* C3: in every returned record, grammar equals _build_grammar_text applied
   to the grammar_json of the same record, exactly. *)
C3_GrammarIsRendering ==
  Returned =>
    LET g == _build_grammar_text(result.grammar_json)
    IN  ~g.raised /\ result.grammar = g.text

C3_Witness ==
  /\ Returned
  /\ Len(result.grammar_json) >= 2
  /\ result.grammar # <<>>
  /\ inp.form = "commaArr"

(* C4: in every returned record, no element of grammar_json has both an
   empty word and an empty explanation. *)
C4_NoEmptyItem ==
  Returned =>
    \A i \in 1..Len(result.grammar_json) :
      LET e == result.grammar_json[i]
      IN  ~(/\ IsDict(e)
            /\ DictGet(e, K_word, EmptyStr) = EmptyStr
            /\ DictGet(e, K_explanation, EmptyStr) = EmptyStr)

(* the well-formed mapping payload of C5 *)
C5_WellFormedItem(e) ==
  /\ IsDict(e)
  /\ \A k \in 1..Len(e.items) : IsStr(e.items[k].v)
  /\ (DictGet(e, K_word, EmptyStr).s # <<>> \/ DictGet(e, K_explanation, EmptyStr).s # <<>>)

C5_WellFormed ==
  /\ inp.form = "map"
  /\ IsDict(payload)
  /\ HasKey(payload, K_original) /\ IsStr(DictGet(payload, K_original, JNull))
  /\ HasKey(payload, K_translation) /\ IsStr(DictGet(payload, K_translation, JNull))
  /\ HasKey(payload, K_grammar) /\ IsList(DictGet(payload, K_grammar, JNull))
  /\ \A i \in 1..Len(DictGet(payload, K_grammar, JNull).items) :
       C5_WellFormedItem(DictGet(payload, K_grammar, JNull).items[i])

C5_InputItems == DictGet(payload, K_grammar, JList(<<>>)).items

C5_Raw(e, k) == DictGet(e, k, EmptyStr).s

(* the item and the line the claim as written expects: the values as given *)
C5_RawItem(e) ==
  JDict([f \in 1..Len(ItemFields) |-> [k |-> ItemFields[f], v |-> JStr(C5_Raw(e, ItemFields[f]))]])

C5_RawLine(e) ==
  <<"-", " ">> \o C5_Raw(e, K_word) \o <<":", " ">> \o C5_Raw(e, K_explanation)
  \o <<" ", "(">> \o C5_Raw(e, K_function) \o <<")">>

(* C5 as written: for a well-formed mapping payload the record has the same
   original and translation, one item per input item carrying the word,
   explanation and function of the input and the empty string for every
   absent field, and one line "- word: explanation (function)" per item. *)
C5_AsWritten ==
  (Returned /\ C5_WellFormed) =>
    /\ result.original = DictGet(payload, K_original, JNull).s
    /\ result.translation = DictGet(payload, K_translation, JNull).s
    /\ result.grammar_json = [i \in 1..Len(C5_InputItems) |-> C5_RawItem(C5_InputItems[i])]
    /\ result.grammar = Join([i \in 1..Len(C5_InputItems) |-> C5_RawLine(C5_InputItems[i])],
                             <<"\n">>)

C5_Trim(e, k) == Strip(C5_Raw(e, k))

C5_TrimItem(e) ==
  JDict([f \in 1..Len(ItemFields) |-> [k |-> ItemFields[f], v |-> JStr(C5_Trim(e, ItemFields[f]))]])

C5_Retained(e) == C5_Trim(e, K_word) # <<>> \/ C5_Trim(e, K_explanation) # <<>>

C5_TrimLine(e) ==
  <<"-", " ">>
  \o (IF C5_Trim(e, K_word) # <<>> THEN C5_Trim(e, K_word) \o <<":", " ">> ELSE <<>>)
  \o C5_Trim(e, K_explanation)
  \o (IF C5_Trim(e, K_function) # <<>>
      THEN <<" ", "(">> \o C5_Trim(e, K_function) \o <<")">>
      ELSE <<>>)

C5_RetainedItems == SelectSeq(C5_InputItems, C5_Retained)

(* C5 amended: for a well-formed mapping payload the call returns; original
   and translation are those of the input with surrounding whitespace
   removed; grammar_json has one item, in order, per input item whose
   trimmed word or trimmed explanation is non-empty, carrying the trimmed
   fields of the input and the empty string for every absent field; grammar
   has one line per retained item: "- word: explanation" when the word is
   non-empty and "- explanation" otherwise, with " (function)" appended
   when the function is non-empty. *)
C5_Amended ==
  (Over /\ C5_WellFormed) =>
    /\ Returned
    /\ result.original = Strip(DictGet(payload, K_original, JNull).s)
    /\ result.translation = Strip(DictGet(payload, K_translation, JNull).s)
    /\ result.grammar_json =
         [i \in 1..Len(C5_RetainedItems) |-> C5_TrimItem(C5_RetainedItems[i])]
    /\ result.grammar =
         Join([i \in 1..Len(C5_RetainedItems) |-> C5_TrimLine(C5_RetainedItems[i])],
              <<"\n">>)

C5_Witness ==
  /\ Returned
  /\ C5_WellFormed
  /\ Len(C5_InputItems) = 2
  /\ Len(result.grammar_json) = 1
  /\ result.original # DictGet(payload, K_original, JNull).s

C6_WellFormedObject(e) == IsDict(e) /\ \A k \in 1..Len(e.items) : IsStr(e.items[k].v)

C6_TrailingComma ==
  /\ inp.form = "commaArr"
  /\ IsStr(ObjOriginal)
  /\ IsStr(ObjTranslation)

(* C6: for a string payload whose grammar array has a trailing comma before
   the closing bracket and whose original and translation are valid, the
   record has the original and translation of the payload and grammar_json
   has one normalized item for each well-formed grammar object of the
   array. *)
C6_TrailingCommaRecovered ==
  (Returned /\ C6_TrailingComma) =>
    /\ result.original = Strip(ObjOriginal.s)
    /\ result.translation = Strip(ObjTranslation.s)
    /\ result.grammar_json =
         _normalize_grammar_items(JList(SelectSeq(ObjGrammar.items, C6_WellFormedObject)))

(* C7: a JSON object text wrapped in leading and trailing prose without
   braces gives the same outcome as the object text alone. *)
C7_ProseSameAsBare ==
  (Over /\ inp.form \in {"prose", "quotedprose"}) =>
    Outcome = OutcomeOf(JStr(CleanText(inp.obj)))

C7_Witness ==
  /\ Returned
  /\ inp.form = "quotedprose"
  /\ Len(result.grammar_json) = 2
  /\ result.original # <<>>

(* C8: a JSON object text wrapped in triple-backtick fences, with or
   without the json tag, gives the same outcome as the object text without
   the fences. *)
C8_FencedSameAsBare ==
  (Over /\ inp.form \in {"fence", "fencejson"}) =>
    Outcome = OutcomeOf(JStr(CleanText(inp.obj)))

C8_Witness ==
  /\ Returned
  /\ inp.form = "fencejson"
  /\ MatchAt(payload.s, 1, T_fence \o T_json)
  /\ Len(result.grammar_json) = 2
  /\ result.original # <<>>

(* the text holds a quoted field name followed by a colon *)
ContainsFieldPattern(s) ==
  \E name \in {K_original, K_translation, K_grammar} :
    \E i \in 1..Len(s) :
      LET q == <<"\"">> \o name \o <<"\"">>
          c == SkipWs(s, i + Len(q))
      IN  MatchAt(s, i, q) /\ c <= Len(s) /\ s[c] = ":"

C9_NotJson ==
  /\ IsStr(payload)
  /\ ~JsonLoads(payload.s).ok
  /\ ~ContainsFieldPattern(payload.s)

(* C9: a string payload that is not JSON and holds none of the field
   patterns of original, translation and grammar gives the all-default
   record. *)
C9_GarbageGivesDefaults ==
  (Over /\ C9_NotJson) => (Returned /\ result = EmptyRecord)

C9_Witness == Returned /\ payload = JStr(T_notjson) /\ result = EmptyRecord

GrammarIsFreeText == HasKey(inp.obj, K_grammar) /\ IsStr(ObjGrammar)

(* the input with the text of its grammar field replaced *)
WithGrammarText(i, t) ==
  [form |-> i.form,
   obj |-> JDict([k \in 1..Len(i.obj.items) |->
                   IF i.obj.items[k].k = K_grammar
                   THEN [k |-> K_grammar, v |-> JStr(t)]
                   ELSE i.obj.items[k]])]

(* C10: the grammar text of the record is never taken from the input: the
   payloads that differ from the current one only in a free-text grammar
   field give the same outcome, and the grammar returned is not that text. *)
C10_FreeTextIgnored ==
  (Over /\ GrammarIsFreeText) =>
    /\ \A t \in FreeTexts : OutcomeOf(PayloadOf(WithGrammarText(inp, t))) = Outcome
    /\ result.grammar # ObjGrammar.s

C10_Witness ==
  /\ Returned
  /\ GrammarIsFreeText
  /\ inp.form = "commaObj"
  /\ result.original # <<>>

----------------------------------------------------------------------------
(* C11: the reference rendering.  With trim the three fields are taken
   stripped of surrounding whitespace, without it as they stand in the
   item. *)
C11_Field(e, k, trim) ==
  LET v == DictGet(e, k, EmptyStr).s IN IF trim THEN Strip(v) ELSE v

C11_Skipped(e, trim) ==
  C11_Field(e, K_word, trim) = <<>> /\ C11_Field(e, K_explanation, trim) = <<>>

C11_Line(e, trim) ==
  LET word == C11_Field(e, K_word, trim)
      explanation == C11_Field(e, K_explanation, trim)
      function == C11_Field(e, K_function, trim)
      head == IF word # <<>> THEN <<"-", " ">> \o word \o <<":", " ">> \o explanation
              ELSE <<"-", " ">> \o explanation
  IN  IF function # <<>> THEN head \o <<" ", "(">> \o function \o <<")">> ELSE head

RECURSIVE C11_Reference(_, _)
C11_Reference(items, trim) ==
  IF items = <<>> THEN <<>>
  ELSE LET rest == C11_Reference(Tail(items), trim)
       IN  IF C11_Skipped(Head(items), trim) THEN rest
           ELSE IF rest = <<>> THEN C11_Line(Head(items), trim)
           ELSE C11_Line(Head(items), trim) \o <<"\n">> \o rest

(* C11 as written: the text _build_grammar_text returns for the items of a
   call equals the reference rendering of those items, the fields word,
   explanation and function taken as they stand in each item: items with
   word and explanation both empty skipped, the line "- word: explanation"
   or "- explanation", " (function)" appended when function is non-empty,
   lines joined by a newline, the empty text for no line. *)
C11_AsWritten ==
  Returned => result.grammar = C11_Reference(grammar_items, FALSE)

(* C11 amended: the same with word, explanation and function of each item
   stripped of surrounding whitespace before they are tested and written. *)
C11_Amended ==
  Returned => result.grammar = C11_Reference(grammar_items, TRUE)

C11_Witness ==
  /\ Returned
  /\ Len(grammar_items) = 2
  /\ C11_Field(grammar_items[1], K_explanation, FALSE)
       # C11_Field(grammar_items[1], K_explanation, TRUE)
  /\ C11_Field(grammar_items[1], K_word, TRUE) = <<>>
  /\ C11_Field(grammar_items[2], K_function, TRUE) # <<>>
  /\ \E i \in 1..Len(result.grammar) : result.grammar[i] = "\n"

----------------------------------------------------------------------------
(* Several calls of parse_and_validate_translation in flight: every call
   runs the steps of the single call on the locals of its own frame, and
   the steps of different calls interleave freely.  mixed records that the
   call took a step while another call was in flight. *)

InFlight(c) == calls[c].pc \in {"direct", "regex", "assemble"}

Mixes(c) == calls[c].mixed \/ \E d \in CallIds \ {c} : InFlight(d)

(* Frame with a fault seeded: the locals are module globals, one frame for
   every call *)
FrameShared(c) == 1

(* the frame holding the locals of call c: every call has its own *)
Frame(c) == c

(* the call is made: lines 73-75 set the locals *)
CallBegins(c) ==
  /\ calls[c].pc = "idle"
  /\ \E i \in ConcurrentInputs :
       calls' = [calls EXCEPT ![c] =
                   [pc |-> "direct", inp |-> i, payload |-> PayloadOf(i),
                    result |-> EmptyRecord, mixed |-> Mixes(c)]]
  /\ frames' = [frames EXCEPT ![Frame(c)] = FreshFrame]
  /\ UNCHANGED outsideCalls

(* lines 77-97: the try block succeeds *)
CallParses(c) ==
  /\ calls[c].pc = "direct"
  /\ LET d == DirectStage(calls[c].payload)
     IN  /\ d.ok
         /\ frames' = [frames EXCEPT ![Frame(c)] =
                         [original |-> d.original, translation |-> d.translation,
                          grammar_items |-> d.items]]
  /\ calls' = [calls EXCEPT ![c].pc = "assemble", ![c].mixed = Mixes(c)]
  /\ UNCHANGED outsideCalls

(* line 98: the try block raised *)
CallParseFails(c) ==
  /\ calls[c].pc = "direct"
  /\ ~DirectStage(calls[c].payload).ok
  /\ calls' = [calls EXCEPT ![c].pc = "regex", ![c].mixed = Mixes(c)]
  /\ UNCHANGED <<frames, outsideCalls>>

(* lines 99-143 *)
CallRecovers(c) ==
  /\ calls[c].pc = "regex"
  /\ LET f == frames[Frame(c)]
         r == RegexStage(calls[c].payload, f.original, f.translation, f.grammar_items)
     IN  frames' = [frames EXCEPT ![Frame(c)] =
                      [original |-> r.original, translation |-> r.translation,
                       grammar_items |-> r.items]]
  /\ calls' = [calls EXCEPT ![c].pc = "assemble", ![c].mixed = Mixes(c)]
  /\ UNCHANGED outsideCalls

(* lines 145-152: the record is returned *)
CallReturns(c) ==
  /\ calls[c].pc = "assemble"
  /\ LET f == frames[Frame(c)]
         a == AssembleRecord(f.original, f.translation, f.grammar_items)
     IN  /\ ~a.raised
         /\ calls' = [calls EXCEPT ![c].pc = "returned", ![c].result = a.rec,
                                   ![c].mixed = Mixes(c)]
  /\ UNCHANGED <<frames, outsideCalls>>

(* line 145: the exception leaves the call *)
CallRaises(c) ==
  /\ calls[c].pc = "assemble"
  /\ LET f == frames[Frame(c)]
     IN  AssembleRecord(f.original, f.translation, f.grammar_items).raised
  /\ calls' = [calls EXCEPT ![c].pc = "raised", ![c].mixed = Mixes(c)]
  /\ UNCHANGED <<frames, outsideCalls>>

(* the caller has taken the outcome; the frame is gone *)
CallEnds(c) ==
  /\ calls[c].pc \in {"returned", "raised"}
  /\ calls' = [calls EXCEPT ![c] = IdleCall]
  /\ frames' = [frames EXCEPT ![Frame(c)] = FreshFrame]
  /\ UNCHANGED outsideCalls

NextCalls ==
  \/ \E c \in CallIds : CallBegins(c)
  \/ \E c \in CallIds : CallParses(c)
  \/ \E c \in CallIds : CallParseFails(c)
  \/ \E c \in CallIds : CallRecovers(c)
  \/ \E c \in CallIds : CallReturns(c)
  \/ \E c \in CallIds : CallRaises(c)
  \/ \E c \in CallIds : CallEnds(c)

SpecCalls == Init /\ [][NextCalls]_vars

(* what each input gives when its call runs alone *)
C13_Alone ==
  [i \in ConcurrentInputs |->
     [payload |-> PayloadOf(i), outcome |-> OutcomeOf(PayloadOf(i))]]

(* C13: calls are reentrant: under every interleaving of the calls in
   flight, each call that is over has the outcome its payload gives when the
   call runs alone, the payload of a call is the one it was handed, and a
   call writes nothing outside its own frame. *)
C13_Reentrant ==
  \A c \in CallIds :
    /\ calls[c].pc # "idle" => calls[c].payload = C13_Alone[calls[c].inp].payload
    /\ calls[c].pc \in {"returned", "raised"} =>
         [raised |-> calls[c].pc = "raised", rec |-> calls[c].result]
           = C13_Alone[calls[c].inp].outcome
    /\ calls[c].pc = "idle" => frames[c] = FreshFrame

C13_Witness ==
  /\ calls[1].pc = "returned"
  /\ calls[1].mixed
  /\ calls[1].inp.form = "commaObj"
  /\ calls[1].result.grammar # <<>>
  /\ calls[2].pc = "assemble"
  /\ calls[2].inp.form = "map"

----------------------------------------------------------------------------
(* launch_popup_subprocess as a state machine: lpc is the position in the
   function.  The environment is set between calls, as the test does with
   monkeypatch.setenv; the processes spawned end on their own. *)

InitLauncher ==
  /\ ValidationInit
  /\ CallsInit
  /\ LauncherInit
  /\ PopupInit
  /\ TranslatorInit
  /\ platform \in {"win32", "linux"}

(* os.environ is changed or cleared between two calls *)
SetEnv ==
  /\ lpc = "idle"
  /\ \E n \in EnvNames : \E v \in EnvValues(n) :
       /\ environ[n] # v
       /\ environ' = [environ EXCEPT ![n] = v]
  /\ UNCHANGED <<platform, lpc, sections, files, procs, ret>>
  /\ UNCHANGED outsideLauncher

(* line 18: the function is called with a sections record *)
Launch ==
  /\ lpc = "idle"
  /\ Simulated \/ Len(procs) < MaxLaunches
  /\ \E s \in SectionsChoices : sections' = s
  /\ lpc' = "check"
  /\ ret' = "pending"
  /\ UNCHANGED <<environ, platform, files, procs>>
  /\ UNCHANGED outsideLauncher

(* lines 24-25: return None *)
ReturnSimulated ==
  /\ lpc = "check"
  /\ Simulated
  /\ ret' = "None"
  /\ lpc' = "returned"
  /\ UNCHANGED <<environ, platform, sections, files, procs>>
  /\ UNCHANGED outsideLauncher

(* lines 28-30: the data file is written *)
WriteData ==
  /\ lpc = "check"
  /\ ~Simulated
  /\ files' = Append(files, DataFile(sections))
  /\ lpc' = "script"
  /\ UNCHANGED <<environ, platform, sections, procs, ret>>
  /\ UNCHANGED outsideLauncher

(* lines 32-63: the popup id is drawn and the script file is written *)
WriteScript ==
  /\ lpc = "script"
  /\ \E id \in PopupIds : files' = Append(files, ScriptFile(id, Len(files)))
  /\ lpc' = "spawn"
  /\ UNCHANGED <<environ, platform, sections, procs, ret>>
  /\ UNCHANGED outsideLauncher

(* lines 66-78: the process is spawned and its handle returned *)
Spawn ==
  /\ lpc = "spawn"
  /\ procs' = Append(procs, Process(Len(files)))
  /\ ret' = Len(procs) + 1
  /\ lpc' = "returned"
  /\ UNCHANGED <<environ, platform, sections, files>>
  /\ UNCHANGED outsideLauncher

(* the caller has taken the value returned *)
LaunchOver ==
  /\ lpc = "returned"
  /\ lpc' = "idle"
  /\ sections' = JNull
  /\ ret' = "pending"
  /\ UNCHANGED <<environ, platform, files, procs>>
  /\ UNCHANGED outsideLauncher

(* lines 53-57 of the script: a popup process ends and unlinks the data
   file it read *)
ChildExits ==
  /\ \E p \in 1..Len(procs) :
       /\ procs[p].alive
       /\ procs' = [procs EXCEPT ![p].alive = FALSE]
       /\ files' = [files EXCEPT ![files[procs[p].script].reads].exists = FALSE]
  /\ UNCHANGED <<environ, platform, lpc, sections, ret>>
  /\ UNCHANGED outsideLauncher

NextLauncher ==
  \/ SetEnv
  \/ Launch
  \/ ReturnSimulated
  \/ WriteData
  \/ WriteScript
  \/ Spawn
  \/ LaunchOver
  \/ ChildExits

SpecLauncher == InitLauncher /\ [][NextLauncher]_vars

(* C14: when POPUP_SIMULATE is 1 in the environment, the step that a call
   of launch_popup_subprocess takes, for any sections record, ends the call
   with None returned, and it creates no temporary file and spawns no
   process. *)
C14_SimulatedLaunch ==
  [][(lpc = "check" /\ lpc' # "check" /\ environ["POPUP_SIMULATE"] = "1") =>
       /\ lpc' = "returned"
       /\ ret' = "None"
       /\ files' = files
       /\ procs' = procs]_vars

C14_Witness ==
  /\ lpc = "returned"
  /\ environ["POPUP_SIMULATE"] = "1"
  /\ ret = "None"
  /\ sections # RecordValue(EmptyRecord)
  /\ Len(procs) = 1
  /\ Len(files) = 2

----------------------------------------------------------------------------
(* the call took the direct-parse path: the try block ran to its end *)
DirectPath == stages = <<"parse", "extract", "assemble">>

(* C15: the coercion rule, read off the object of the input: a string as it
   is, null or an absent key as the empty string, any other value as the
   text str gives for it *)
C15_Coerce(d, k) ==
  IF ~HasKey(d, k) THEN <<>>
  ELSE LET v == DictGet(d, k, JNull)
       IN  IF v.t = "str" THEN v.s
           ELSE IF v.t = "null" THEN <<>>
           ELSE PyStr(v)

C15_Item(e) ==
  JDict([f \in 1..Len(ItemFields) |->
          [k |-> ItemFields[f], v |-> JStr(Strip(C15_Coerce(e, ItemFields[f])))]])

RECURSIVE C15_Items(_)
C15_Items(list) ==
  IF list = <<>> THEN <<>>
  ELSE LET e == Head(list)
           kept == /\ IsDict(e)
                   /\ \/ Strip(C15_Coerce(e, K_word)) # <<>>
                      \/ Strip(C15_Coerce(e, K_explanation)) # <<>>
       IN  (IF kept THEN <<C15_Item(e)>> ELSE <<>>) \o C15_Items(Tail(list))

(* C15: on the direct-parse path, original, translation and every field of
   every grammar item retained are the values of the parsed object read by
   one coercion rule, then stripped: a string is taken as it is, null or an
   absent key gives the empty string, any other value gives its str text. *)
C15_OneCoercionRule ==
  (Over /\ DirectPath /\ IsDict(inp.obj)) =>
    /\ Returned
    /\ result.original = Strip(C15_Coerce(inp.obj, K_original))
    /\ result.translation = Strip(C15_Coerce(inp.obj, K_translation))
    /\ IsList(ObjGrammar) => result.grammar_json = C15_Items(ObjGrammar.items)

C15_Witness ==
  /\ Returned
  /\ DirectPath
  /\ inp.obj = ObjNulls
  /\ inp.form = "prose"
  /\ result.original = <<>>
  /\ result.translation = <<"5">>
  /\ Len(result.grammar_json) = 1
  /\ DictGet(result.grammar_json[1], K_word, JNull) = JStr(<<>>)
  /\ DictGet(result.grammar_json[1], K_explanation, JNull) = JStr(<<"T", "r", "u", "e">>)
  /\ DictGet(result.grammar_json[1], K_difficulty, JNull) = JStr(<<>>)

----------------------------------------------------------------------------
(* the forms in which the text of the object reaches json.loads whole *)
ParsableForms == {"map", "plain", "prose", "quotedprose", "fence", "fencejson"}

(* the grammar of the input is no sequence, or a sequence with an element
   that is no mapping *)
C16_OddGrammar ==
  /\ HasKey(inp.obj, K_grammar)
  /\ \/ ~IsList(ObjGrammar)
     \/ \E i \in 1..Len(ObjGrammar.items) : ~IsDict(ObjGrammar.items[i])

(* the same input with only the mapping elements of its grammar, and with
   an empty sequence for a grammar that is no sequence *)
C16_Peer ==
  LET g == IF IsList(ObjGrammar) THEN JList(SelectSeq(ObjGrammar.items, IsDict))
           ELSE JList(<<>>)
  IN  [form |-> inp.form,
       obj |-> JDict([k \in 1..Len(inp.obj.items) |->
                       IF inp.obj.items[k].k = K_grammar
                       THEN [k |-> K_grammar, v |-> g]
                       ELSE inp.obj.items[k]])]

(* C16: on the direct-parse path a grammar that is no sequence gives an
   empty grammar_json, and the elements of a grammar sequence that are no
   mappings are discarded while the mappings around them are kept: the call
   stays on the direct path, returns, and its record is the one the same
   payload gives with those elements left out, original and translation
   included. *)
C16_OddGrammarTolerated ==
  (Over /\ IsDict(inp.obj) /\ inp.form \in ParsableForms /\ C16_OddGrammar) =>
    /\ Returned
    /\ DirectPath
    /\ ~IsList(ObjGrammar) => result.grammar_json = <<>>
    /\ Outcome = OutcomeOf(PayloadOf(C16_Peer))

C16_Witness ==
  /\ Returned
  /\ DirectPath
  /\ inp.form = "fence"
  /\ IsList(ObjGrammar)
  /\ Len(ObjGrammar.items) = 2
  /\ ~IsDict(ObjGrammar.items[1])
  /\ Len(result.grammar_json) = 1
  /\ result.original # <<>>

C16_WitnessNoSequence ==
  /\ Returned
  /\ DirectPath
  /\ inp.form = "map"
  /\ IsStr(ObjGrammar)
  /\ result.grammar_json = <<>>
  /\ result.translation # <<>>

----------------------------------------------------------------------------
(* the stages in their fixed order: the structural parse, then the field
   extraction or the regex recovery or both, then the final assembly *)
C17_Orders ==
  {<<"parse", "extract", "assemble">>,
   <<"parse", "regex", "assemble">>,
   <<"parse", "extract", "regex", "assemble">>}

C17_IsPrefix(s, t) == Len(s) <= Len(t) /\ SubSeq(t, 1, Len(s)) = s

C17_Ran(stage) == \E i \in 1..Len(stages) : stages[i] = stage

(* what holds of the order under both readings of the claim *)
C17_FixedOrder ==
  /\ \E t \in C17_Orders : C17_IsPrefix(stages, t)
  /\ C17_Ran("extract") => StructuralParse(payload).ok
  /\ IsDict(payload) => ~C17_Ran("regex")
  /\ Over => stages \in C17_Orders

(* C17 as written: the stages run in a fixed order; the field extraction is
   reached only after a successful structural parse; the regex recovery is
   entered only when the structural parse of a string payload throws, so
   never after the field extraction was reached; a mapping payload never
   enters the regex recovery; every call ends in the final assembly. *)
C17_AsWritten ==
  /\ C17_FixedOrder
  /\ C17_Ran("regex") =>
       /\ IsStr(payload)
       /\ ~StructuralParse(payload).ok
       /\ ~C17_Ran("extract")

(* C17 amended: the same, the regex recovery being entered only when the
   try block of a string payload throws: either the structural parse
   throws, or it succeeds with a value that is no mapping and the field
   extraction throws. *)
C17_Amended ==
  /\ C17_FixedOrder
  /\ C17_Ran("regex") =>
       /\ IsStr(payload)
       /\ \/ ~StructuralParse(payload).ok /\ ~C17_Ran("extract")
          \/ /\ StructuralParse(payload).ok
             /\ ~IsDict(StructuralParse(payload).v)
             /\ C17_Ran("extract")

C17_Witness ==
  /\ Returned
  /\ payload = JStr(<<"1", "2", "3">>)
  /\ stages = <<"parse", "extract", "regex", "assemble">>

----------------------------------------------------------------------------
(* the text the regex stage works on, line 103 *)
C18_Text == ReSubFence(payload.s, 1)

(* the regex stage ran, it extracted original or translation, and a later
   step of it failed: json.loads of the grammar array text raised *)
C18_LaterStepFails ==
  /\ C17_Ran("regex")
  /\ SearchField(K_original, C18_Text).found \/ SearchField(K_translation, C18_Text).found
  /\ SearchGrammar(C18_Text).found
  /\ ~JsonLoads(SearchGrammar(C18_Text).val).ok

C18_Extracted(name) ==
  LET m == SearchField(name, C18_Text) IN IF m.found THEN Strip(m.val) ELSE <<>>

C18_KeepsExtracted ==
  /\ original = C18_Extracted(K_original)
  /\ translation = C18_Extracted(K_translation)
  /\ Returned =>
       /\ result.original = original
       /\ result.translation = translation
       /\ result.grammar_json = grammar_items

(* C18 as written: when the regex recovery has extracted original or
   translation and a later step of the stage fails, the failure does not
   leave the stage, the original and translation extracted are kept, and
   grammar_json is left at the value it had before the failure, the empty
   list. *)
C18_AsWritten ==
  (Over /\ C18_LaterStepFails) =>
    /\ C18_KeepsExtracted
    /\ grammar_items = <<>>

(* what the steps after the failure give: the list parsed from the text
   with the commas before a closing bracket removed, else the items
   extracted object by object *)
C18_Fallback ==
  LET gram_str == SearchGrammar(C18_Text).val
      repaired == JsonLoads(ReSubTrailingComma(gram_str, 1))
  IN  IF repaired.ok THEN repaired.v.items ELSE ExtractItems(gram_str)

(* C18 amended: in that case the failure does not leave the stage and the
   original and translation extracted are kept; the grammar items are what
   the fallbacks after the failure give, and stay at the value they had
   before the failure only when the fallbacks give nothing. *)
C18_Amended ==
  (Over /\ C18_LaterStepFails) =>
    /\ C18_KeepsExtracted
    /\ grammar_items = C18_Fallback

C18_Witness ==
  /\ Returned
  /\ C18_LaterStepFails
  /\ inp.form = "noComma"
  /\ result.original = <<"a">>
  /\ result.translation = <<"b">>
  /\ Len(result.grammar_json) = 2

----------------------------------------------------------------------------
(* the damaged forms that leave the text of every field of the object as
   json.dumps wrote it *)
FieldsIntactForms == {"commaObj", "commaArr", "noComma"}

(* a field recovered whole: the text of the value, or that text still in
   its escaped form *)
C19_Whole(v, got) == got = Strip(v.s) \/ got = Strip(JsonEscape(v.s))

(* C19: in regex recovery original and translation are captured up to the
   next unescaped quote: a value is recovered whole also when it holds an
   escaped quote, and a field whose pattern is not in the text stays
   empty. *)
C19_EscapedQuoteKept ==
  (Over /\ C17_Ran("regex") /\ IsDict(inp.obj) /\ inp.form \in FieldsIntactForms) =>
    /\ IsStr(ObjOriginal) => C19_Whole(ObjOriginal, original)
    /\ IsStr(ObjTranslation) => C19_Whole(ObjTranslation, translation)
    /\ ~HasKey(inp.obj, K_original) => original = <<>>
    /\ ~HasKey(inp.obj, K_translation) => translation = <<>>

(* the same for the values that hold no quote *)
C19_NoQuoteKept ==
  (Over /\ C17_Ran("regex") /\ IsDict(inp.obj) /\ inp.form \in FieldsIntactForms) =>
    /\ (IsStr(ObjOriginal) /\ Find(ObjOriginal.s, "\"") = 0) =>
         C19_Whole(ObjOriginal, original)
    /\ (IsStr(ObjTranslation) /\ Find(ObjTranslation.s, "\"") = 0) =>
         C19_Whole(ObjTranslation, translation)
    /\ ~HasKey(inp.obj, K_original) => original = <<>>
    /\ ~HasKey(inp.obj, K_translation) => translation = <<>>

----------------------------------------------------------------------------
(* the array of the object holds a closing bracket before its own: inside
   a string, or as the end of a nested array *)
C20_BracketInside ==
  LET t == JsonDumps(ObjGrammar) IN IndexFrom(t, 1, "]") # Len(t)

(* C20: in regex recovery the text taken for the grammar array runs from
   the bracket after "grammar": to the matching closing bracket: for an
   object whose array is intact it is the whole array, also when a string
   of the array or a nested array holds a closing bracket, and the items
   recovered are the elements of that array. *)
C20_WholeArray ==
  (/\ Over /\ C17_Ran("regex") /\ IsDict(inp.obj)
   /\ inp.form = "commaObj" /\ IsList(ObjGrammar)) =>
    /\ SearchGrammar(C18_Text).found
    /\ SearchGrammar(C18_Text).val = JsonDumps(ObjGrammar)
    /\ grammar_items = ObjGrammar.items

(* the same for the arrays that hold no closing bracket but their own *)
C20_FlatArrayWhole ==
  (/\ Over /\ C17_Ran("regex") /\ IsDict(inp.obj)
   /\ inp.form = "commaObj" /\ IsList(ObjGrammar) /\ ~C20_BracketInside) =>
    /\ SearchGrammar(C18_Text).found
    /\ SearchGrammar(C18_Text).val = JsonDumps(ObjGrammar)
    /\ grammar_items = ObjGrammar.items

----------------------------------------------------------------------------
(* the text of the grammar array the regex stage found, line 113 *)
C21_GramStr == SearchGrammar(C18_Text).val

(* the last resort is reached: the regex stage ran, the array text was
   found, and it parses neither as it is nor with the commas before a
   closing bracket removed *)
C21_LastResort ==
  /\ C17_Ran("regex")
  /\ SearchGrammar(C18_Text).found
  /\ ~JsonLoads(C21_GramStr).ok
  /\ ~JsonLoads(ReSubTrailingComma(C21_GramStr, 1)).ok

(* the substrings of a text that run from an opening brace to the next
   closing brace, left to right, each starting after the one before *)
RECURSIVE C21_Substrings(_)
C21_Substrings(s) ==
  LET b == Find(s, "{")
      rest == SubSeq(s, b + 1, Len(s))
      e == Find(rest, "}")
  IN  IF b = 0 \/ e = 0 THEN <<>>
      ELSE <<SubSeq(s, b, b + e)>> \o C21_Substrings(SubSeq(rest, e + 1, Len(rest)))

(* one field of one substring, taken alone: the stripped text between the
   quotes after "name":, the empty string when the pattern is absent *)
C21_FieldOf(name, sub) ==
  IF SearchField(name, sub).found THEN Strip(SearchField(name, sub).val) ELSE <<>>

C21_ItemOf(sub) ==
  JDict(<<[k |-> K_word, v |-> JStr(C21_FieldOf(K_word, sub))],
          [k |-> K_explanation, v |-> JStr(C21_FieldOf(K_explanation, sub))],
          [k |-> K_function, v |-> JStr(C21_FieldOf(K_function, sub))],
          [k |-> K_additional_info, v |-> JStr(C21_FieldOf(K_additional_info, sub))],
          [k |-> K_examples, v |-> JStr(C21_FieldOf(K_examples, sub))],
          [k |-> K_difficulty, v |-> JStr(C21_FieldOf(K_difficulty, sub))]>>)

C21_Kept(sub) ==
  C21_FieldOf(K_word, sub) # <<>> \/ C21_FieldOf(K_explanation, sub) # <<>>

C21_Expected ==
  LET subs == SelectSeq(C21_Substrings(C21_GramStr), C21_Kept)
  IN  [i \in 1..Len(subs) |-> C21_ItemOf(subs[i])]

(* C21: in regex recovery, when the text of the grammar array parses
   neither as it is nor after the trailing-comma repair, each substring
   from a brace to the next closing brace gives an item whose six fields
   are extracted one by one, an absent field being the empty string, and
   the items kept are exactly those with a non-empty word or explanation,
   in the order of the text. *)
C21_PerObjectExtraction ==
  (Over /\ C21_LastResort) =>
    /\ grammar_items = C21_Expected
    /\ Returned => result.grammar_json = C21_Expected

(* an array of two objects without a comma between them, the second with a
   blank word and no explanation: the first is kept, the second dropped *)
C21_Witness ==
  /\ Returned
  /\ C21_LastResort
  /\ inp.form = "noComma"
  /\ Len(C21_Substrings(C21_GramStr)) = 2
  /\ Len(result.grammar_json) = 1
  /\ DictGet(result.grammar_json[1], K_explanation, JNull) = JStr(<<"e">>)
  /\ DictGet(result.grammar_json[1], K_word, JNull) = JStr(<<>>)

----------------------------------------------------------------------------
(* a text with no whitespace at either end; the empty text has none *)
C28_Trimmed(s) == s = <<>> \/ (s[1] \notin WS /\ s[Len(s)] \notin WS)

(* the value of the payload's object comes with whitespace at an end *)
C28_PaddedValue(v) == IsStr(v) /\ ~C28_Trimmed(v.s)

(* C28: in every record returned, original and translation have no
   leading and no trailing whitespace, on the direct path and on the
   regex-recovery path. *)
C28_FieldsTrimmed ==
  Returned =>
    /\ C28_Trimmed(result.original)
    /\ C28_Trimmed(result.translation)

(* regex recovery on an object whose original ends with a space and whose
   translation has whitespace at both ends: the space before b is removed,
   the tab after it stays in the escaped form of the text *)
C28_Witness ==
  /\ Returned
  /\ C17_Ran("regex")
  /\ C28_PaddedValue(ObjOriginal)
  /\ C28_PaddedValue(ObjTranslation)
  /\ result.original = <<"a">>
  /\ result.translation = <<"b", "\\", "t">>

(* the same object on the direct path *)
C28_WitnessDirect ==
  /\ Returned
  /\ DirectPath
  /\ C28_PaddedValue(ObjOriginal)
  /\ C28_PaddedValue(ObjTranslation)
  /\ result.original = <<"a">>
  /\ result.translation = <<"b">>

----------------------------------------------------------------------------
(* the k-th smallest index of a set of indices *)
C29_Nth(keep, k) ==
  CHOOSE i \in keep : Cardinality({j \in keep : j < i}) = k - 1

(* out is the image, in order, of the elements of list at the indices of
   keep, all of them mappings *)
C29_ImageOfSubsequence(out, list, keep) ==
  /\ \A i \in keep : IsDict(list[i])
  /\ Len(out) = Cardinality(keep)
  /\ \A k \in 1..Len(out) : out[k] = C15_Item(list[C29_Nth(keep, k)])

(* C29: for a mapping payload whose grammar is a list, grammar_json is the
   order-preserving image of a subsequence of that list: no item is added
   or duplicated, and its length is at most the number of elements of the
   list that are mappings. *)
C29_SubsequenceOfInput ==
  (Over /\ inp.form = "map" /\ IsList(ObjGrammar)) =>
    /\ Returned
    /\ \E keep \in SUBSET (1..Len(ObjGrammar.items)) :
         C29_ImageOfSubsequence(result.grammar_json, ObjGrammar.items, keep)
    /\ Len(result.grammar_json)
         <= Cardinality({i \in 1..Len(ObjGrammar.items) : IsDict(ObjGrammar.items[i])})

(* a list of a number and a mapping: the one item returned is the image of
   the second element *)
C29_Witness ==
  /\ Returned
  /\ inp.form = "map"
  /\ IsList(ObjGrammar)
  /\ ObjGrammar.items = <<ItemNotMapping, ItemPadded>>
  /\ Len(result.grammar_json) = 1
  /\ DictGet(result.grammar_json[1], K_explanation, JNull) = JStr(<<"e">>)

----------------------------------------------------------------------------
(* the record returned when the record of the current state is handed back
   to the function as a mapping: [raised, rec] *)
C30_Again == parse_and_validate_translation(RecordValue(result))

(* C30: feeding a returned record back to the function as a mapping returns
   a record with the same original and the same translation. *)
C30_RefeedKeepsFields ==
  Returned =>
    /\ ~C30_Again.raised
    /\ C30_Again.rec.original = result.original
    /\ C30_Again.rec.translation = result.translation

(* a record recovered by the regex stage with text in both fields and an
   item in grammar_json is fed back: the fields come back the same, the
   items do not, the grammar of a record being text *)
C30_Witness ==
  /\ Returned
  /\ C17_Ran("regex")
  /\ result.original = <<"a">>
  /\ result.translation = <<"b">>
  /\ result.grammar_json # <<>>
  /\ C30_Again.rec.original = <<"a">>
  /\ C30_Again.rec.translation = <<"b">>
  /\ C30_Again.rec.grammar_json = <<>>

----------------------------------------------------------------------------
(* The popup requests of modern_popup_pyqt6.py.  The requests come one
   after the other, from the one thread that handles the hotkey. *)

(* time.time() moves on between two requests *)
Tick ==
  /\ ppc = "idle"
  /\ clock < MaxTime
  /\ clock' = clock + 1
  /\ UNCHANGED <<_last_popup_time, _active_popup_processes, processes, ppc,
                 request, popup_ret, requests, accepted>>
  /\ UNCHANGED outsidePopup

(* time.time() is the wall clock: it is set back between two requests *)
ClockSetBack ==
  /\ ppc = "idle"
  /\ clock > Window
  /\ clock' = clock - 1
  /\ UNCHANGED <<_last_popup_time, _active_popup_processes, processes, ppc,
                 request, popup_ret, requests, accepted>>
  /\ UNCHANGED outsidePopup

(* a popup process ends by itself: the window is closed, or the script
   fails *)
PopupExits ==
  /\ \E p \in 1..Len(processes) :
       /\ processes[p].alive
       /\ processes' = [processes EXCEPT ![p].alive = FALSE]
  /\ UNCHANGED <<clock, _last_popup_time, _active_popup_processes, ppc,
                 request, popup_ret, requests, accepted>>
  /\ UNCHANGED outsidePopup

(* TooSoon with a fault seeded: the rejected request starts a new window *)
TooSoonExtendsWindow ==
  /\ ppc = "idle"
  /\ requests < MaxRequests
  /\ \E e \in Entries, t \in PopupTextos, m \in BOOLEAN :
       request' = [NoRequest EXCEPT !.entry = e, !.texto = t, !.main_thread = m]
  /\ clock - _last_popup_time < Window
  /\ _last_popup_time' = clock
  /\ popup_ret' = "None"
  /\ requests' = requests + 1
  /\ UNCHANGED <<clock, _active_popup_processes, processes, ppc, accepted>>
  /\ UNCHANGED outsidePopup

(* lines 1110-1113 and 1357-1360: the request comes too soon *)
TooSoon ==
  /\ ppc = "idle"
  /\ requests < MaxRequests
  /\ \E e \in Entries, t \in PopupTextos, m \in BOOLEAN :
       request' = [NoRequest EXCEPT !.entry = e, !.texto = t, !.main_thread = m]
  /\ clock - _last_popup_time < Window
  /\ popup_ret' = "None"
  /\ requests' = requests + 1
  /\ UNCHANGED <<clock, _last_popup_time, _active_popup_processes, processes,
                 ppc, accepted>>
  /\ UNCHANGED outsidePopup

(* lines 1110-1114 and 1357-1361: the request is accepted *)
Accept ==
  /\ ppc = "idle"
  /\ requests < MaxRequests
  /\ ~(clock - _last_popup_time < Window)
  /\ _last_popup_time' = clock
  /\ \E e \in Entries, t \in PopupTextos, m \in BOOLEAN :
       /\ request' = [NoRequest EXCEPT !.entry = e, !.texto = t, !.main_thread = m]
       /\ accepted' = Append(accepted, [time |-> clock, entry |-> e])
  /\ ppc' = "parse"
  /\ popup_ret' = "pending"
  /\ requests' = requests + 1
  /\ UNCHANGED <<clock, _active_popup_processes, processes>>
  /\ UNCHANGED outsidePopup

(* lines 1120, 1128-1130 and 1365, 1371: parse_ai_response returns and a
   creator is called; in the main thread mostrar_explicacion_moderna_pyqt6
   goes on to the direct popup *)
ParseAiResponse ==
  /\ ppc = "parse"
  /\ request.texto = "text"
  /\ IF request.entry = "show_modern_popup"
     THEN /\ ppc' = "cleanup"
          /\ request' = [request EXCEPT
                          !.creator = "_create_modern_subprocess_popup",
                          !.registered = Elements(_active_popup_processes)]
     ELSE IF ~request.main_thread
     THEN /\ ppc' = "cleanup"
          /\ request' = [request EXCEPT
                          !.creator = "_create_subprocess_popup",
                          !.registered = Elements(_active_popup_processes)]
     ELSE /\ ppc' = "direct"
          /\ UNCHANGED request
  /\ UNCHANGED <<clock, _last_popup_time, _active_popup_processes, processes,
                 popup_ret, requests, accepted>>
  /\ UNCHANGED outsidePopup

(* lines 1120, 1157 and 1365, 1376: parse_ai_response raises; the handler
   reads sections, which was never bound, and the NameError leaves the
   entry point *)
ParseRaises ==
  /\ ppc = "parse"
  /\ request.texto = "notstr"
  /\ ppc' = "idle"
  /\ popup_ret' = "raised"
  /\ UNCHANGED <<clock, _last_popup_time, _active_popup_processes, processes,
                 request, requests, accepted>>
  /\ UNCHANGED outsidePopup

(* lines 1136-1150: the popup is created in this process and returned *)
DirectPopup ==
  /\ ppc = "direct"
  /\ ppc' = "idle"
  /\ popup_ret' = "popup"
  /\ UNCHANGED <<clock, _last_popup_time, _active_popup_processes, processes,
                 request, requests, accepted>>
  /\ UNCHANGED outsidePopup

(* lines 1152-1157: Qt raises and the handler calls _create_subprocess_popup *)
DirectRaises ==
  /\ ppc = "direct"
  /\ ppc' = "cleanup"
  /\ request' = [request EXCEPT
                  !.creator = "_create_subprocess_popup",
                  !.registered = Elements(_active_popup_processes)]
  /\ UNCHANGED <<clock, _last_popup_time, _active_popup_processes, processes,
                 popup_ret, requests, accepted>>
  /\ UNCHANGED outsidePopup

(* Cleanup with a fault seeded: the processes are sent kill but the list is
   not cleared *)
CleanupKeepsList ==
  /\ ppc = "cleanup"
  /\ processes' = [p \in 1..Len(processes) |->
                    IF p \in Elements(_active_popup_processes)
                    THEN Killed(processes[p]) ELSE processes[p]]
  /\ ppc' = "spawn"
  /\ UNCHANGED <<clock, _last_popup_time, _active_popup_processes, request,
                 popup_ret, requests, accepted>>
  /\ UNCHANGED outsidePopup

(* lines 1168-1184 and 1388-1396: every process of the list is sent kill,
   then the list is cleared *)
Cleanup ==
  /\ ppc = "cleanup"
  /\ processes' = [p \in 1..Len(processes) |->
                    IF p \in Elements(_active_popup_processes)
                    THEN Killed(processes[p]) ELSE processes[p]]
  /\ _active_popup_processes' = <<>>
  /\ ppc' = "spawn"
  /\ UNCHANGED <<clock, _last_popup_time, request, popup_ret, requests, accepted>>
  /\ UNCHANGED outsidePopup

(* lines 1192-1253 and 1405-1465: the files are written, the process is
   started and appended to the list *)
SpawnPopup ==
  /\ ppc = "spawn"
  /\ processes' = Append(processes, Started)
  /\ _active_popup_processes' = Append(_active_popup_processes, Len(processes) + 1)
  /\ request' = [request EXCEPT !.process = Len(processes) + 1]
  /\ ppc' = "sleep"
  /\ UNCHANGED <<clock, _last_popup_time, popup_ret, requests, accepted>>
  /\ UNCHANGED outsidePopup

(* lines 1266-1268 and 1478-1480: a temporary file cannot be written or
   Popen raises: the creator returns None *)
SpawnRaises ==
  /\ ppc = "spawn"
  /\ ppc' = "idle"
  /\ popup_ret' = "None"
  /\ UNCHANGED <<clock, _last_popup_time, _active_popup_processes, processes,
                 request, requests, accepted>>
  /\ UNCHANGED outsidePopup

(* lines 1258 and 1470: time.sleep(0.5) *)
Sleep ==
  /\ ppc = "sleep"
  /\ clock' = IF clock + SleepTime <= MaxTime THEN clock + SleepTime ELSE MaxTime
  /\ ppc' = "poll"
  /\ UNCHANGED <<_last_popup_time, _active_popup_processes, processes,
                 request, popup_ret, requests, accepted>>
  /\ UNCHANGED outsidePopup

(* lines 1260-1264: _create_subprocess_popup takes a process that has
   exited out of the list, and returns None either way *)
PollSubprocessPopup ==
  /\ ppc = "poll"
  /\ request.creator = "_create_subprocess_popup"
  /\ LET exited == ~processes[request.process].alive
     IN  /\ request' = [request EXCEPT !.exited = exited]
         /\ _active_popup_processes' =
              IF exited THEN Remove(_active_popup_processes, request.process)
              ELSE _active_popup_processes
  /\ popup_ret' = "None"
  /\ ppc' = "idle"
  /\ UNCHANGED <<clock, _last_popup_time, processes, requests, accepted>>
  /\ UNCHANGED outsidePopup

(* lines 1472-1476: _create_modern_subprocess_popup returns None when the
   process has exited, the process otherwise *)
PollModernSubprocessPopup ==
  /\ ppc = "poll"
  /\ request.creator = "_create_modern_subprocess_popup"
  /\ LET exited == ~processes[request.process].alive
     IN  /\ request' = [request EXCEPT !.exited = exited]
         /\ popup_ret' = IF exited THEN "None" ELSE "process"
  /\ ppc' = "idle"
  /\ UNCHANGED <<clock, _last_popup_time, _active_popup_processes, processes,
                 requests, accepted>>
  /\ UNCHANGED outsidePopup

NextPopup ==
  \/ Tick
  \/ ClockSetBack
  \/ PopupExits
  \/ TooSoon
  \/ Accept
  \/ ParseAiResponse
  \/ ParseRaises
  \/ DirectPopup
  \/ DirectRaises
  \/ Cleanup
  \/ SpawnPopup
  \/ SpawnRaises
  \/ Sleep
  \/ PollSubprocessPopup
  \/ PollModernSubprocessPopup

SpecPopup == Init /\ [][NextPopup]_vars

----------------------------------------------------------------------------
(* a step that is a request arriving less than 2.0 seconds after the last
   one accepted *)
C22_EarlyRequest ==
  /\ requests' = requests + 1
  /\ clock - _last_popup_time < Window

(* C22: popup requests are debounced across both entry points, which share
   _last_popup_time: a request that arrives less than 2.0 seconds after the
   last accepted one returns None without parsing, without launching and
   without changing _last_popup_time or _active_popup_processes; so any two
   accepted requests are at least 2 seconds apart, and a rejected request
   does not extend the window. *)
C22_Debounced ==
  /\ [](\A i, j \in 1..Len(accepted) :
          i < j => accepted[j].time - accepted[i].time >= Window)
  /\ [][C22_EarlyRequest =>
          /\ popup_ret' = "None"
          /\ ppc' = "idle"
          /\ _last_popup_time' = _last_popup_time
          /\ _active_popup_processes' = _active_popup_processes
          /\ processes' = processes
          /\ accepted' = accepted]_vars

(* a request through one entry point was accepted, a process is in the
   list, and a request through the other entry point, made before the
   window is over, has returned None and left the globals as they were *)
C22_Witness ==
  /\ ppc = "idle"
  /\ popup_ret = "None"
  /\ request.creator = "none"
  /\ accepted # <<>>
  /\ request.entry \in Entries
  /\ request.entry # accepted[Len(accepted)].entry
  /\ clock - _last_popup_time < Window
  /\ clock > _last_popup_time
  /\ _last_popup_time = accepted[Len(accepted)].time
  /\ _active_popup_processes # <<>>
  /\ Len(accepted) = 2

----------------------------------------------------------------------------
(* a step in which a creator starts its process *)
C23_Spawns == Len(processes') > Len(processes)

(* C23: after any sequence of calls of _create_subprocess_popup and
   _create_modern_subprocess_popup the list _active_popup_processes holds
   at most one process, and every process that was in the list when a call
   started has been sent kill and taken out of the list before the call
   spawns its own process. *)
C23_OneActivePopup ==
  /\ [](Len(_active_popup_processes) <= 1)
  /\ [][C23_Spawns =>
          /\ \A p \in request.registered :
               /\ processes[p].killed
               /\ p \notin Elements(_active_popup_processes)
          /\ _active_popup_processes' = <<request.process'>>
          /\ request.process' \notin request.registered]_vars

(* a creator was called with a process in the list, which was still
   running: it was killed, and the list holds the new process alone *)
C23_Witness ==
  /\ ppc = "idle"
  /\ request.creator = "_create_subprocess_popup"
  /\ request.registered = {1}
  /\ processes[1].killed
  /\ request.process = 2
  /\ processes[2].alive
  /\ _active_popup_processes = <<2>>

----------------------------------------------------------------------------
(* C24: a popup process that the check after the 0.5 seconds finds exited
   is not in _active_popup_processes when the creator returns, for both
   creators. *)
C24_ExitedNotListed ==
  (ppc = "idle" /\ request.exited) =>
    request.process \notin Elements(_active_popup_processes)

(* the same for _create_subprocess_popup alone *)
C24_ExitedNotListedSubprocessPopup ==
  (ppc = "idle" /\ request.exited /\ request.creator = "_create_subprocess_popup") =>
    request.process \notin Elements(_active_popup_processes)

----------------------------------------------------------------------------
(* The translator of main.py: calls of translate_text_with_explanation and
   of execute_translation, one after the other, as the hotkey handler makes
   them. *)

(* a translator with or without an API key, DEBUG set or not, and the
   popups simulated or not *)
InitTranslator ==
  /\ ValidationInit
  /\ CallsInit
  /\ PopupInit
  /\ platform = "linux"
  /\ lpc = "idle"
  /\ sections = JNull
  /\ files = <<>>
  /\ procs = <<>>
  /\ ret = "pending"
  /\ \E v \in {Unset, "1"} :
       environ = [n \in EnvNames |-> IF n = "POPUP_SIMULATE" THEN v ELSE Unset]
  /\ client \in BOOLEAN
  /\ debug \in BOOLEAN
  /\ word_cache = WordCache
  /\ translation_history = <<>>
  /\ api_calls = 0
  /\ tpc = "idle"
  /\ texto = <<>>
  /\ translated = <<>>
  /\ response = "none"
  /\ snapshot = NoSnapshot
  /\ epc = "idle"
  /\ imagen = "None"
  /\ validated = [raised |-> FALSE, rec |-> EmptyRecord]
  /\ executed = "pending"
  /\ steps = <<>>

(* line 212: translate_text_with_explanation(texto) is called *)
TranslateCalled ==
  /\ epc = "idle"
  /\ tpc = "idle"
  /\ api_calls < MaxTranslations
  /\ \E t \in Textos : texto' = t
  /\ tpc' = "called"
  /\ translated' = <<>>
  /\ response' = "none"
  /\ snapshot' = [snapshot EXCEPT !.api_calls = api_calls,
                                  !.translation_history = translation_history]
  /\ UNCHANGED <<client, debug, word_cache, translation_history, api_calls>>
  /\ UNCHANGED <<executeVars, launcherVars, outsideTranslator>>

(* lines 214-230: no text, no client, or the word is cached *)
ReturnEarly ==
  /\ tpc = "called"
  /\ ReturnsEarly(texto, client)
  /\ translated' = EarlyResult(texto, client, word_cache)
  /\ tpc' = "returned"
  /\ UNCHANGED <<client, debug, word_cache, translation_history, api_calls,
                 texto, response, snapshot>>
  /\ UNCHANGED <<executeVars, launcherVars, outsideTranslator>>

(* lines 232-275: the prompt is built and the chat completion is asked for *)
ApiCall ==
  /\ tpc = "called"
  /\ ~ReturnsEarly(texto, client)
  /\ api_calls' = api_calls + 1
  /\ tpc' = "api"
  /\ UNCHANGED <<client, debug, word_cache, translation_history, texto,
                 translated, response, snapshot>>
  /\ UNCHANGED <<executeVars, launcherVars, outsideTranslator>>

(* ApiRaises with a fault seeded: the failed call is written to the history *)
ApiRaisesLogged ==
  /\ tpc = "api"
  /\ response' = "raised"
  /\ translated' = T_TranslationError \o T_ApiFailure
  /\ translation_history' =
       Append(translation_history,
              [original |-> texto, translation |-> T_TranslationError \o T_ApiFailure])
  /\ tpc' = "returned"
  /\ UNCHANGED <<client, debug, word_cache, api_calls, texto, snapshot>>
  /\ UNCHANGED <<executeVars, launcherVars, outsideTranslator>>

(* lines 316-318: the API call raises *)
ApiRaises ==
  /\ tpc = "api"
  /\ response' = "raised"
  /\ translated' = T_TranslationError \o T_ApiFailure
  /\ tpc' = "returned"
  /\ UNCHANGED <<client, debug, word_cache, translation_history, api_calls,
                 texto, snapshot>>
  /\ UNCHANGED <<executeVars, launcherVars, outsideTranslator>>

(* lines 277-314: the response carries a text: the result is made of it,
   appended to the history and returned *)
ApiResponds ==
  /\ tpc = "api"
  /\ \E content \in Contents :
       /\ translated' = ResultOfContent(content)
       /\ translation_history' =
            Append(translation_history,
                   [original |-> texto, translation |-> ResultOfContent(content)])
  /\ response' = "content"
  /\ tpc' = "returned"
  /\ UNCHANGED <<client, debug, word_cache, api_calls, texto, snapshot>>
  /\ UNCHANGED <<executeVars, launcherVars, outsideTranslator>>

(* lines 277, 316-318: the response carries no text: message.content is
   None, .strip() raises and the handler returns the error text *)
ApiRespondsWithoutContent ==
  /\ tpc = "api"
  /\ response' = "nocontent"
  /\ translated' = T_TranslationError \o T_NoneHasNoStrip
  /\ tpc' = "returned"
  /\ UNCHANGED <<client, debug, word_cache, translation_history, api_calls,
                 texto, snapshot>>
  /\ UNCHANGED <<executeVars, launcherVars, outsideTranslator>>

(* the caller has taken the value returned *)
TranslateOver ==
  /\ tpc = "returned"
  /\ epc = "idle"
  /\ tpc' = "idle"
  /\ texto' = <<>>
  /\ translated' = <<>>
  /\ response' = "none"
  /\ snapshot' = NoSnapshot
  /\ UNCHANGED <<client, debug, word_cache, translation_history, api_calls>>
  /\ UNCHANGED <<executeVars, launcherVars, outsideTranslator>>

(* line 320: execute_translation() is called *)
ExecuteCalled ==
  /\ epc = "idle"
  /\ tpc = "idle"
  /\ api_calls < MaxTranslations
  /\ Simulated \/ Len(procs) < MaxLaunches
  /\ epc' = "capture"
  /\ executed' = "pending"
  /\ steps' = <<>>
  /\ snapshot' = [api_calls |-> api_calls,
                  translation_history |-> translation_history,
                  procs |-> Len(procs)]
  /\ UNCHANGED <<imagen, validated>>
  /\ UNCHANGED <<client, debug, word_cache, translation_history, api_calls,
                 tpc, texto, translated, response>>
  /\ UNCHANGED <<launcherVars, outsideTranslator>>

(* lines 328-331: captura_subtitulos returns the image, or None *)
Capture ==
  /\ epc = "capture"
  /\ \E i \in {"image", "None"} :
       /\ imagen' = i
       /\ epc' = IF i = "None" THEN "returned" ELSE "extract"
       /\ executed' = IF i = "None" THEN "False" ELSE executed
  /\ steps' = Append(steps, "capture")
  /\ UNCHANGED validated
  /\ UNCHANGED <<translatorVars, launcherVars, outsideTranslator>>

(* Extract with a fault seeded: an empty text goes on to the translator *)
ExtractGoesOnWhenEmpty ==
  /\ epc = "extract"
  /\ \E t \in ExtractedTexts :
       /\ texto' = t
       /\ epc' = "translate"
       /\ executed' = executed
  /\ steps' = Append(steps, "extract")
  /\ UNCHANGED <<imagen, validated>>
  /\ UNCHANGED <<client, debug, word_cache, translation_history, api_calls,
                 tpc, translated, response, snapshot>>
  /\ UNCHANGED <<launcherVars, outsideTranslator>>

(* lines 338-341: extraer_texto returns the text, or the empty text *)
Extract ==
  /\ epc = "extract"
  /\ \E t \in ExtractedTexts :
       /\ texto' = t
       /\ epc' = IF t = <<>> THEN "returned" ELSE "translate"
       /\ executed' = IF t = <<>> THEN "False" ELSE executed
  /\ steps' = Append(steps, "extract")
  /\ UNCHANGED <<imagen, validated>>
  /\ UNCHANGED <<client, debug, word_cache, translation_history, api_calls,
                 tpc, translated, response, snapshot>>
  /\ UNCHANGED <<launcherVars, outsideTranslator>>

(* line 348: translate_text_with_explanation(texto) is called *)
Translate ==
  /\ epc = "translate"
  /\ tpc = "idle"
  /\ epc' = "translating"
  /\ tpc' = "called"
  /\ translated' = <<>>
  /\ response' = "none"
  /\ snapshot' = [snapshot EXCEPT !.api_calls = api_calls,
                                  !.translation_history = translation_history]
  /\ steps' = Append(steps, "translate")
  /\ UNCHANGED <<imagen, validated, executed>>
  /\ UNCHANGED <<client, debug, word_cache, translation_history, api_calls, texto>>
  /\ UNCHANGED <<launcherVars, outsideTranslator>>

(* lines 361 and 369-371: parse_and_validate_translation(translation)
   returns the record, or raises and the handler returns False; validated
   is [raised, rec], and rec is the record returned when raised is FALSE *)
Validate ==
  /\ epc = "translating"
  /\ tpc = "returned"
  /\ validated' = parse_and_validate_translation(JStr(translated))
  /\ epc' = IF validated'.raised THEN "returned" ELSE "launch"
  /\ executed' = IF validated'.raised THEN "False" ELSE executed
  /\ tpc' = "idle"
  /\ steps' = Append(steps, "validate")
  /\ UNCHANGED imagen
  /\ UNCHANGED <<client, debug, word_cache, translation_history, api_calls,
                 texto, translated, response, snapshot>>
  /\ UNCHANGED <<launcherVars, outsideTranslator>>

(* lines 362-367 and popup_launcher.py 18-78: launch_popup_subprocess(
   validated) returns: None when the popups are simulated, else the process
   it spawned on the two files it wrote; without DEBUG, True is returned *)
LaunchPopup ==
  /\ epc = "launch"
  /\ IF Simulated
     THEN UNCHANGED <<files, procs>>
     ELSE /\ \E id \in PopupIds :
               files' = files \o <<DataFile(RecordValue(validated.rec)),
                                   ScriptFile(id, Len(files) + 1)>>
          /\ procs' = Append(procs, Process(Len(files) + 2))
  /\ epc' = IF debug THEN "save" ELSE "returned"
  /\ executed' = IF debug THEN executed ELSE "True"
  /\ steps' = Append(steps, "launch")
  /\ UNCHANGED <<imagen, validated>>
  /\ UNCHANGED <<environ, platform, lpc, sections, ret>>
  /\ UNCHANGED <<translatorVars, outsideTranslator>>

(* lines 362 and 369-371: a temporary file cannot be written or Popen
   raises, and the handler returns False *)
LaunchPopupRaises ==
  /\ epc = "launch"
  /\ ~Simulated
  /\ epc' = "returned"
  /\ executed' = "False"
  /\ steps' = Append(steps, "launch")
  /\ UNCHANGED <<imagen, validated>>
  /\ UNCHANGED <<translatorVars, launcherVars, outsideTranslator>>

(* lines 364-367: with DEBUG=1 the image is saved, then True is returned;
   save_image is the name line 9 imports from utilidades, taken here as
   bound to the function that saves the image *)
SaveImage ==
  /\ epc = "save"
  /\ epc' = "returned"
  /\ executed' = "True"
  /\ UNCHANGED <<imagen, validated, steps>>
  /\ UNCHANGED <<translatorVars, launcherVars, outsideTranslator>>

(* lines 365 and 369-371: saving the image raises, and the handler returns
   False *)
SaveImageRaises ==
  /\ epc = "save"
  /\ epc' = "returned"
  /\ executed' = "False"
  /\ UNCHANGED <<imagen, validated, steps>>
  /\ UNCHANGED <<translatorVars, launcherVars, outsideTranslator>>

(* the caller has taken the value returned *)
ExecuteOver ==
  /\ epc = "returned"
  /\ epc' = "idle"
  /\ imagen' = "None"
  /\ validated' = [raised |-> FALSE, rec |-> EmptyRecord]
  /\ executed' = "pending"
  /\ steps' = <<>>
  /\ texto' = <<>>
  /\ translated' = <<>>
  /\ response' = "none"
  /\ snapshot' = NoSnapshot
  /\ tpc' = "idle"
  /\ UNCHANGED <<client, debug, word_cache, translation_history, api_calls>>
  /\ UNCHANGED <<launcherVars, outsideTranslator>>

NextTranslator ==
  \/ TranslateCalled
  \/ ReturnEarly
  \/ ApiCall
  \/ ApiRaises
  \/ ApiResponds
  \/ ApiRespondsWithoutContent
  \/ TranslateOver
  \/ ExecuteCalled
  \/ Capture
  \/ Extract
  \/ Translate
  \/ Validate
  \/ LaunchPopup
  \/ LaunchPopupRaises
  \/ SaveImage
  \/ SaveImageRaises
  \/ ExecuteOver

SpecTranslator == InitTranslator /\ [][NextTranslator]_vars

----------------------------------------------------------------------------
(* a call of translate_text_with_explanation has returned *)
TranslateReturned == tpc = "returned"

(* the text of the call lowercased and stripped is a key of word_cache *)
C25_Cached ==
  \E i \in 1..Len(WordCache.items) :
    WordCache.items[i].k = Strip(Lower(texto))

C25_CachedEntry ==
  (CHOOSE e \in Elements(WordCache.items) : e.k = Strip(Lower(texto))).v

(* C25: translate_text_with_explanation makes no call to the chat
   completion API when the text is empty, when no client is configured, or
   when the lowercased and stripped text is a key of word_cache; on a cache
   hit it returns a JSON object whose original is the text of the caller
   and whose translation and grammar are the cached values; word_cache is
   never modified. *)
C25_CacheBeforeApi ==
  /\ word_cache = WordCache
  /\ (TranslateReturned /\ (texto = <<>> \/ ~client \/ C25_Cached)) =>
       /\ api_calls = snapshot.api_calls
       /\ response = "none"
  /\ (TranslateReturned /\ texto # <<>> /\ client /\ C25_Cached) =>
       LET obj == JsonLoads(translated)
       IN  /\ obj.ok
           /\ IsDict(obj.v)
           /\ Len(obj.v.items) = 3
           /\ DictGet(obj.v, K_original, JNull) = JStr(texto)
           /\ DictGet(obj.v, K_translation, JNull)
                = DictGet(C25_CachedEntry, K_translation, JNull)
           /\ DictGet(obj.v, K_grammar, JNull)
                = DictGet(C25_CachedEntry, K_grammar, JNull)

(* the word is asked for in capitals with a space after it, after an API
   call for another text: the cached translation comes back with the text
   as the caller wrote it, and no further API call is made *)
C25_Witness ==
  /\ TranslateReturned
  /\ client
  /\ texto = <<"C", "i", "a", "o", " ">>
  /\ api_calls = 1
  /\ snapshot.api_calls = 1
  /\ DictGet(JsonLoads(translated).v, K_original, JNull) = JStr(texto)
  /\ DictGet(JsonLoads(translated).v, K_translation, JNull)
       = JStr(<<"h", "o", "l", "a">>)

----------------------------------------------------------------------------
(* the history is the one the call found, with n entries after it *)
C26_Grown(n) ==
  /\ Len(translation_history) = Len(snapshot.translation_history) + n
  /\ SubSeq(translation_history, 1, Len(snapshot.translation_history))
       = snapshot.translation_history

(* the entry a call appends: the text of the caller and the value returned *)
C26_LastIsThisCall ==
  translation_history[Len(translation_history)]
    = [original |-> texto, translation |-> translated]

(* C26 as written: translation_history gains exactly one entry per call of
   translate_text_with_explanation that obtains an API response, and is left
   unchanged by a call that returns early or whose API call raises; entries
   are never removed or reordered. *)
C26_AsWritten ==
  /\ tpc # "idle" => \E n \in {0, 1} : C26_Grown(n)
  /\ (TranslateReturned /\ response \in {"content", "nocontent"}) => C26_Grown(1)
  /\ (TranslateReturned /\ response \in {"none", "raised"}) => C26_Grown(0)

(* C26 amended: the history gains exactly one entry, the text of the caller
   with the value returned, per call whose API response carries a text
   content; it is left unchanged by a call that returns early, whose API
   call raises, or whose response carries no text (content None, for which
   the error text is returned); entries are never removed or reordered. *)
C26_Amended ==
  /\ tpc # "idle" => \E n \in {0, 1} : C26_Grown(n)
  /\ (TranslateReturned /\ response = "content") =>
       C26_Grown(1) /\ C26_LastIsThisCall
  /\ (TranslateReturned /\ response \in {"none", "raised", "nocontent"}) =>
       C26_Grown(0)

(* the second call that got a text from the API: the history holds the
   entry of the first and, after it, the entry of this call *)
C26_Witness ==
  /\ TranslateReturned
  /\ response = "content"
  /\ Len(snapshot.translation_history) = 1
  /\ Len(translation_history) = 2
  /\ translation_history[1] = snapshot.translation_history[1]
  /\ translation_history[2].original = T_si
  /\ translation_history[2].translation = translated

(* a call whose response carried no text: an API call was made, the error
   text is returned, and the history is as the call found it *)
C26_WitnessWithoutContent ==
  /\ TranslateReturned
  /\ response = "nocontent"
  /\ api_calls = snapshot.api_calls + 1
  /\ translation_history = snapshot.translation_history
  /\ translation_history # <<>>

----------------------------------------------------------------------------
(* a call of execute_translation has returned *)
ExecuteReturned == epc = "returned"

C27_Steps == <<"capture", "extract", "translate", "validate", "launch">>

(* the steps run so far are the first steps of the fixed order *)
C27_InOrder ==
  /\ Len(steps) <= Len(C27_Steps)
  /\ steps = SubSeq(C27_Steps, 1, Len(steps))

(* nothing was asked of the translator and nothing was launched *)
C27_NothingDone ==
  /\ executed = "False"
  /\ api_calls = snapshot.api_calls
  /\ translation_history = snapshot.translation_history
  /\ response = "none"
  /\ Len(procs) = snapshot.procs

(* the call spawned one popup process, and the data file of its script
   holds the validated record *)
C27_OnePopup ==
  /\ Len(procs) = snapshot.procs + 1
  /\ files[files[procs[Len(procs)].script].reads].text
       = JsonDumps(RecordValue(validated.rec))

(* what holds of every call with or without a popup process *)
C27_Workflow ==
  /\ C27_InOrder
  /\ ExecuteReturned =>
       /\ executed \in {"True", "False"}
       /\ imagen = "None" => (steps = <<"capture">> /\ C27_NothingDone)
       /\ (imagen # "None" /\ texto = <<>>) =>
            (steps = <<"capture", "extract">> /\ C27_NothingDone)
       /\ steps # C27_Steps => executed = "False"
       /\ Len(steps) >= 4 =>
            validated = parse_and_validate_translation(JStr(translated))
       /\ steps = <<"capture", "extract", "translate", "validate">> =>
            validated.raised
       /\ executed = "True" => ~validated.raised

(* C27 as written: execute_translation runs capture, text extraction,
   translation, validation and popup launch in that order and never raises;
   when capture returns no image or the extraction returns empty text it
   returns False without calling the translator or launching a popup;
   otherwise it passes the result of the translator through
   parse_and_validate_translation, launches exactly one popup with the
   validated record and returns True; it returns False if a step raises. *)
C27_AsWritten ==
  /\ C27_Workflow
  /\ (ExecuteReturned /\ executed = "True") => C27_OnePopup

(* C27 amended: the same, but the launch is one call of
   launch_popup_subprocess with the validated record: it starts exactly one
   popup process on that record unless POPUP_SIMULATE is 1, in which case
   True is returned with no popup launched. *)
C27_Amended ==
  /\ C27_Workflow
  /\ (ExecuteReturned /\ executed = "True") =>
       IF Simulated THEN Len(procs) = snapshot.procs /\ files = <<>>
       ELSE C27_OnePopup

(* the second run that launched a popup: the text went through the API,
   the record validated has the original of the response *)
C27_Witness ==
  /\ ExecuteReturned
  /\ executed = "True"
  /\ ~Simulated
  /\ steps = C27_Steps
  /\ response = "content"
  /\ validated.rec.original = <<"a">>
  /\ Len(procs) = 2
  /\ snapshot.procs = 1

(* a run under POPUP_SIMULATE=1: True is returned and no process exists *)
C27_WitnessSimulated ==
  /\ ExecuteReturned
  /\ executed = "True"
  /\ Simulated
  /\ steps = C27_Steps
  /\ procs = <<>>

(* a run in which the validation raised: False, and nothing launched *)
C27_WitnessValidationRaises ==
  /\ ExecuteReturned
  /\ executed = "False"
  /\ validated.raised
  /\ steps = <<"capture", "extract", "translate", "validate">>
  /\ Len(procs) = snapshot.procs

====
